---- MODULE Spec2Model ----
(***************************************************************************)
(* PrintAPI SDK: the validation / request / error-normalisation pipeline   *)
(* of PrintApiClient (PrintApiClient.js, validate.js, PrintApiError.js).   *)
(*                                                                         *)
(* JavaScript values are tagged records.  A string the code inspects       *)
(* character by character (trim, includes, startsWith, toUpperCase,        *)
(* length) is a sequence of one-character strings; a string the code only  *)
(* passes along (labels, error messages, remote texts) is a TLA+ string.   *)
(* An object is a function from its own property names to values, so that  *)
(* spread, rest destructuring and a missing property behave as in the      *)
(* language.                                                               *)
(***************************************************************************)
EXTENDS Integers, Sequences, FiniteSets, TLC

-----------------------------------------------------------------------------
(* JavaScript values *)

Undef == [t |-> "undefined"]
Null == [t |-> "null"]
Bool(b) == [t |-> "boolean", b |-> b]
Num(n) == [t |-> "number", n |-> n, frac |-> FALSE, nan |-> FALSE]
NumHalf(n) == [t |-> "number", n |-> n, frac |-> TRUE, nan |-> FALSE]
NaN == [t |-> "number", n |-> 0, frac |-> FALSE, nan |-> TRUE]
Str(chars) == [t |-> "string", chars |-> chars]
Txt(text) == [t |-> "string", text |-> text]
Arr(a) == [t |-> "array", a |-> a]
Obj(f) == [t |-> "object", f |-> f]
EmptyObj == Obj(<<>>)

\* typeof v === 'string' / 'number' / 'object'; Array.isArray(v)
IsString(v) == v.t = "string"
IsNumber(v) == v.t = "number"
IsArray(v) == v.t = "array"
TypeofObject(v) == v.t \in {"object", "array", "null"}

\* the length of a string value
StrLen(v) == IF "chars" \in DOMAIN v THEN Len(v.chars) ELSE Len(v.text)

\* ToBoolean(v): false for undefined, null, false, 0, NaN and ""
Truthy(v) ==
  CASE v.t = "undefined" -> FALSE
    [] v.t = "null" -> FALSE
    [] v.t = "boolean" -> v.b
    [] v.t = "number" -> ~v.nan /\ ~(v.n = 0 /\ ~v.frac)
    [] v.t = "string" -> StrLen(v) > 0
    [] OTHER -> TRUE

\* o.k : undefined when o has no own property k (or has no properties at all)
Get(o, k) ==
  IF o.t = "object" /\ k \in DOMAIN o.f THEN o.f[k] ELSE Undef

\* the own enumerable properties of v, as spread and rest see them: the
\* fields of an object, the indices of an array or of a string, nothing for
\* null, undefined and the other primitives
OwnProps(v) ==
  CASE v.t = "object" -> v.f
    [] v.t = "array" ->
         [k \in {ToString(i - 1) : i \in 1..Len(v.a)} |->
            v.a[CHOOSE i \in 1..Len(v.a) : ToString(i - 1) = k]]
    [] v.t = "string" /\ "chars" \in DOMAIN v ->
         [k \in {ToString(i - 1) : i \in 1..Len(v.chars)} |->
            Str(<<v.chars[CHOOSE i \in 1..Len(v.chars) : ToString(i - 1) = k]>>)]
    [] OTHER -> <<>>

\* { ...o, k: v }
With(o, k, v) ==
  Obj([x \in (DOMAIN OwnProps(o)) \cup {k} |-> IF x = k THEN v ELSE OwnProps(o)[x]])

\* { ...o } without the property k
Without(o, k) ==
  Obj([x \in (DOMAIN OwnProps(o)) \ {k} |-> OwnProps(o)[x]])

\* v < k, v > k for a number v and an integer k (every comparison with NaN is false)
NumLt(v, k) == ~v.nan /\ v.n < k
NumGt(v, k) == ~v.nan /\ (v.n > k \/ (v.n = k /\ v.frac))
NumLe(v, k) == ~v.nan /\ ~NumGt(v, k)

\* Number.isInteger(v)
IsInteger(v) == IsNumber(v) /\ ~v.nan /\ ~v.frac

-----------------------------------------------------------------------------
(* String.prototype helpers used by validate.js and the constructor *)

WhiteSpace == {" ", "\t", "\n"}

RECURSIVE trimStart(_)
trimStart(s) ==
  IF s # <<>> /\ Head(s) \in WhiteSpace THEN trimStart(Tail(s)) ELSE s

RECURSIVE trimEnd(_)
trimEnd(s) ==
  IF s # <<>> /\ s[Len(s)] \in WhiteSpace
  THEN trimEnd(SubSeq(s, 1, Len(s) - 1))
  ELSE s

trim(s) == trimEnd(trimStart(s))

includes(s, ch) == \E i \in 1..Len(s) : s[i] = ch

startsWith(s, p) == Len(s) >= Len(p) /\ SubSeq(s, 1, Len(p)) = p

Lower == <<"a","b","c","d","e","f","g","h","i","j","k","l","m",
           "n","o","p","q","r","s","t","u","v","w","x","y","z">>
Upper == <<"A","B","C","D","E","F","G","H","I","J","K","L","M",
           "N","O","P","Q","R","S","T","U","V","W","X","Y","Z">>

upperChar(c) ==
  IF \E i \in 1..26 : Lower[i] = c
  THEN Upper[CHOOSE i \in 1..26 : Lower[i] = c]
  ELSE c

toUpperCase(s) == [i \in 1..Len(s) |-> upperChar(s[i])]

-----------------------------------------------------------------------------
(* validate.js.  A validator yields Pass, or the message of the Error it   *)
(* throws.                                                                 *)

Pass == ""

VALID_STATES ==
  { <<"A","L">>, <<"A","Z">>, <<"A","R">>, <<"C","A">>, <<"C","O">>,
    <<"C","T">>, <<"D","C">>, <<"D","E">>, <<"F","L">>, <<"G","A">>,
    <<"I","D">>, <<"I","L">>, <<"I","N">>, <<"I","A">>, <<"K","S">>,
    <<"K","Y">>, <<"L","A">>, <<"M","E">>, <<"M","D">>, <<"M","A">>,
    <<"M","I">>, <<"M","N">>, <<"M","S">>, <<"M","O">>, <<"M","T">>,
    <<"N","E">>, <<"N","V">>, <<"N","H">>, <<"N","J">>, <<"N","M">>,
    <<"N","Y">>, <<"N","C">>, <<"N","D">>, <<"O","H">>, <<"O","K">>,
    <<"O","R">>, <<"P","A">>, <<"R","I">>, <<"S","C">>, <<"S","D">>,
    <<"T","N">>, <<"T","X">>, <<"U","T">>, <<"V","T">>, <<"V","A">>,
    <<"W","A">>, <<"W","V">>, <<"W","I">>, <<"W","Y">> }

Newsletter == <<"N","e","w","s","l","e","t","t","e","r">>
Calendar == <<"C","a","l","e","n","d","a","r">>
Flyer == <<"F","l","y","e","r">>
LFP == <<"L","F","P">>
VALID_PRODUCT_TYPES == { Str(Newsletter), Str(Calendar), Str(Flyer), Str(LFP) }

LFP_CS == <<"L","F","P","_","C","S">>
HttpsScheme == <<"h","t","t","p","s",":","/","/">>

isEmail(v) == IsString(v) /\ includes(v.chars, "@") /\ includes(v.chars, ".")

isHttpsUrl(v) == IsString(v) /\ startsWith(v.chars, HttpsScheme)

\* a variant that compares the state as written
isState_caseSensitive(v) == IsString(v) /\ v.chars \in VALID_STATES

isState(v) == IsString(v) /\ toUpperCase(v.chars) \in VALID_STATES

\* a variant that does not trim
requireString_untrimmed(val, label) ==
  IF ~IsString(val) \/ val.chars = <<>>
  THEN label \o " must be a non-empty string"
  ELSE Pass

requireString(val, label) ==
  IF ~IsString(val) \/ trim(val.chars) = <<>>
  THEN label \o " must be a non-empty string"
  ELSE Pass

\* the loops of validate.js over files and e-mail lists stop at the first
\* offending entry: its position from `from` on, or 0 when there is none
RECURSIVE firstNotHttps(_, _)
firstNotHttps(a, from) ==
  IF from > Len(a) THEN 0
  ELSE IF ~isHttpsUrl(a[from]) THEN from
  ELSE firstNotHttps(a, from + 1)

RECURSIVE firstNotEmail(_, _)
firstNotEmail(a, from) ==
  IF from > Len(a) THEN 0
  ELSE IF ~isEmail(a[from]) THEN from
  ELSE firstNotEmail(a, from + 1)

\* a variant without the upper bound of quantity
validateOrderItem_noUpperBound(item, i, requireFiles) ==
  LET prefix == "orderItems[" \o ToString(i - 1) \o "]"
      sku == Get(item, "sku")
      quantity == Get(item, "quantity")
      longEdge == Get(item, "longEdge")
      shortEdge == Get(item, "shortEdge")
      files == Get(item, "files")
      badFile == IF IsArray(files) THEN firstNotHttps(files.a, 1) ELSE 0
  IN
  IF ~Truthy(item) \/ ~TypeofObject(item) \/ IsArray(item)
    THEN prefix \o " must be an object"
  ELSE IF requireString(sku, prefix \o ".sku") # Pass
    THEN requireString(sku, prefix \o ".sku")
  ELSE IF Get(item, "productType") \notin VALID_PRODUCT_TYPES
    THEN prefix \o ".productType must be one of: Newsletter, Calendar, Flyer, LFP"
  ELSE IF ~IsInteger(quantity) \/ NumLt(quantity, 1)
    THEN prefix \o ".quantity must be an integer between 1 and 1000"
  ELSE IF sku = Str(LFP_CS) /\ (~IsNumber(longEdge) \/ NumLe(longEdge, 0))
    THEN prefix \o ".longEdge is required for LFP_CS and must be a positive number"
  ELSE IF sku = Str(LFP_CS) /\ (~IsNumber(shortEdge) \/ NumLe(shortEdge, 0))
    THEN prefix \o ".shortEdge is required for LFP_CS and must be a positive number"
  ELSE IF requireFiles /\ (~IsArray(files) \/ Len(files.a) = 0)
    THEN prefix \o ".files must be a non-empty array of HTTPS URLs"
  ELSE IF requireFiles /\ badFile # 0
    THEN prefix \o ".files[" \o ToString(badFile - 1) \o "] must be an HTTPS URL"
  ELSE Pass

\* the body of the for loop of validateOrderItems for the item at position i
\* (1-based here, printed 0-based as the code does)
validateOrderItem(item, i, requireFiles) ==
  LET prefix == "orderItems[" \o ToString(i - 1) \o "]"
      sku == Get(item, "sku")
      quantity == Get(item, "quantity")
      longEdge == Get(item, "longEdge")
      shortEdge == Get(item, "shortEdge")
      files == Get(item, "files")
      badFile == IF IsArray(files) THEN firstNotHttps(files.a, 1) ELSE 0
  IN
  IF ~Truthy(item) \/ ~TypeofObject(item) \/ IsArray(item)
    THEN prefix \o " must be an object"
  ELSE IF requireString(sku, prefix \o ".sku") # Pass
    THEN requireString(sku, prefix \o ".sku")
  ELSE IF Get(item, "productType") \notin VALID_PRODUCT_TYPES
    THEN prefix \o ".productType must be one of: Newsletter, Calendar, Flyer, LFP"
  ELSE IF ~IsInteger(quantity) \/ NumLt(quantity, 1) \/ NumGt(quantity, 1000)
    THEN prefix \o ".quantity must be an integer between 1 and 1000"
  ELSE IF sku = Str(LFP_CS) /\ (~IsNumber(longEdge) \/ NumLe(longEdge, 0))
    THEN prefix \o ".longEdge is required for LFP_CS and must be a positive number"
  ELSE IF sku = Str(LFP_CS) /\ (~IsNumber(shortEdge) \/ NumLe(shortEdge, 0))
    THEN prefix \o ".shortEdge is required for LFP_CS and must be a positive number"
  ELSE IF requireFiles /\ (~IsArray(files) \/ Len(files.a) = 0)
    THEN prefix \o ".files must be a non-empty array of HTTPS URLs"
  ELSE IF requireFiles /\ badFile # 0
    THEN prefix \o ".files[" \o ToString(badFile - 1) \o "] must be an HTTPS URL"
  ELSE Pass

RECURSIVE validateOrderItemsFrom(_, _, _)
validateOrderItemsFrom(a, i, requireFiles) ==
  IF i > Len(a) THEN Pass
  ELSE IF validateOrderItem(a[i], i, requireFiles) # Pass
    THEN validateOrderItem(a[i], i, requireFiles)
  ELSE validateOrderItemsFrom(a, i + 1, requireFiles)

validateOrderItems(items, requireFiles) ==
  IF ~IsArray(items) \/ Len(items.a) = 0
    THEN "orderItems must be a non-empty array"
  ELSE validateOrderItemsFrom(items.a, 1, requireFiles)

\* a variant that lets a fourth tracking address through
validateCustomer_fourTracking(customer, label) ==
  LET phone == Get(customer, "phone")
      tracking == Get(customer, "shipmentTrackingEmail")
      invoice == Get(customer, "billingInvoiceEmails")
      badTracking == IF IsArray(tracking) THEN firstNotEmail(tracking.a, 1) ELSE 0
      badInvoice == IF IsArray(invoice) THEN firstNotEmail(invoice.a, 1) ELSE 0
  IN
  IF ~Truthy(customer) \/ ~TypeofObject(customer)
    THEN label \o " is required"
  ELSE IF requireString(Get(customer, "firstName"), label \o ".firstName") # Pass
    THEN requireString(Get(customer, "firstName"), label \o ".firstName")
  ELSE IF requireString(Get(customer, "lastName"), label \o ".lastName") # Pass
    THEN requireString(Get(customer, "lastName"), label \o ".lastName")
  ELSE IF requireString(Get(customer, "address1"), label \o ".address1") # Pass
    THEN requireString(Get(customer, "address1"), label \o ".address1")
  ELSE IF requireString(Get(customer, "city"), label \o ".city") # Pass
    THEN requireString(Get(customer, "city"), label \o ".city")
  ELSE IF requireString(Get(customer, "zip"), label \o ".zip") # Pass
    THEN requireString(Get(customer, "zip"), label \o ".zip")
  ELSE IF requireString(phone, label \o ".phone") # Pass
    THEN requireString(phone, label \o ".phone")
  ELSE IF ~IsString(phone) \/ StrLen(phone) <= 9
    THEN label \o ".phone must be a string with more than 9 characters"
  ELSE IF ~isEmail(Get(customer, "email"))
    THEN label \o ".email must be a valid email address"
  ELSE IF ~isState(Get(customer, "state"))
    THEN label \o ".state must be a 2-letter US state code (lower 48 + DC)"
  ELSE IF label = "shippingCustomer"
          /\ (~IsArray(tracking) \/ Len(tracking.a) < 1 \/ Len(tracking.a) > 4)
    THEN label \o ".shipmentTrackingEmail must be an array of 1-3 email addresses"
  ELSE IF label = "shippingCustomer" /\ badTracking # 0
    THEN label \o ".shipmentTrackingEmail[" \o ToString(badTracking - 1)
               \o "] must be a valid email address"
  ELSE IF label = "billingCustomer" /\ invoice \notin {Null, Undef} /\ ~IsArray(invoice)
    THEN label \o ".billingInvoiceEmails must be an array of email addresses"
  ELSE IF label = "billingCustomer" /\ invoice \notin {Null, Undef} /\ badInvoice # 0
    THEN label \o ".billingInvoiceEmails[" \o ToString(badInvoice - 1)
               \o "] must be a valid email address"
  ELSE Pass

validateCustomer(customer, label) ==
  LET phone == Get(customer, "phone")
      tracking == Get(customer, "shipmentTrackingEmail")
      invoice == Get(customer, "billingInvoiceEmails")
      badTracking == IF IsArray(tracking) THEN firstNotEmail(tracking.a, 1) ELSE 0
      badInvoice == IF IsArray(invoice) THEN firstNotEmail(invoice.a, 1) ELSE 0
  IN
  IF ~Truthy(customer) \/ ~TypeofObject(customer)
    THEN label \o " is required"
  ELSE IF requireString(Get(customer, "firstName"), label \o ".firstName") # Pass
    THEN requireString(Get(customer, "firstName"), label \o ".firstName")
  ELSE IF requireString(Get(customer, "lastName"), label \o ".lastName") # Pass
    THEN requireString(Get(customer, "lastName"), label \o ".lastName")
  ELSE IF requireString(Get(customer, "address1"), label \o ".address1") # Pass
    THEN requireString(Get(customer, "address1"), label \o ".address1")
  ELSE IF requireString(Get(customer, "city"), label \o ".city") # Pass
    THEN requireString(Get(customer, "city"), label \o ".city")
  ELSE IF requireString(Get(customer, "zip"), label \o ".zip") # Pass
    THEN requireString(Get(customer, "zip"), label \o ".zip")
  ELSE IF requireString(phone, label \o ".phone") # Pass
    THEN requireString(phone, label \o ".phone")
  ELSE IF ~IsString(phone) \/ StrLen(phone) <= 9
    THEN label \o ".phone must be a string with more than 9 characters"
  ELSE IF ~isEmail(Get(customer, "email"))
    THEN label \o ".email must be a valid email address"
  ELSE IF ~isState(Get(customer, "state"))
    THEN label \o ".state must be a 2-letter US state code (lower 48 + DC)"
  ELSE IF label = "shippingCustomer"
          /\ (~IsArray(tracking) \/ Len(tracking.a) < 1 \/ Len(tracking.a) > 3)
    THEN label \o ".shipmentTrackingEmail must be an array of 1-3 email addresses"
  ELSE IF label = "shippingCustomer" /\ badTracking # 0
    THEN label \o ".shipmentTrackingEmail[" \o ToString(badTracking - 1)
               \o "] must be a valid email address"
  ELSE IF label = "billingCustomer" /\ invoice \notin {Null, Undef} /\ ~IsArray(invoice)
    THEN label \o ".billingInvoiceEmails must be an array of email addresses"
  ELSE IF label = "billingCustomer" /\ invoice \notin {Null, Undef} /\ badInvoice # 0
    THEN label \o ".billingInvoiceEmails[" \o ToString(badInvoice - 1)
               \o "] must be a valid email address"
  ELSE Pass

\* a variant that asks for billing whenever the flag is falsy
validateCreateOrderData_falsyFlag(orderData) ==
  IF ~Truthy(orderData) \/ ~TypeofObject(orderData)
    THEN "orderData must be an object"
  ELSE IF requireString(Get(orderData, "orderDatetime"), "orderDatetime") # Pass
    THEN requireString(Get(orderData, "orderDatetime"), "orderDatetime")
  ELSE IF requireString(Get(orderData, "sourceReferenceOrderNumber"),
                        "sourceReferenceOrderNumber") # Pass
    THEN requireString(Get(orderData, "sourceReferenceOrderNumber"),
                       "sourceReferenceOrderNumber")
  ELSE IF validateOrderItems(Get(orderData, "orderItems"), TRUE) # Pass
    THEN validateOrderItems(Get(orderData, "orderItems"), TRUE)
  ELSE IF validateCustomer(Get(orderData, "shippingCustomer"), "shippingCustomer") # Pass
    THEN validateCustomer(Get(orderData, "shippingCustomer"), "shippingCustomer")
  ELSE IF ~Truthy(Get(orderData, "sourceSystemBilling"))
    THEN IF ~Truthy(Get(orderData, "billingCustomer"))
           THEN "billingCustomer is required when sourceSystemBilling is false"
           ELSE validateCustomer(Get(orderData, "billingCustomer"), "billingCustomer")
  ELSE Pass

validateCreateOrderData(orderData) ==
  IF ~Truthy(orderData) \/ ~TypeofObject(orderData)
    THEN "orderData must be an object"
  ELSE IF requireString(Get(orderData, "orderDatetime"), "orderDatetime") # Pass
    THEN requireString(Get(orderData, "orderDatetime"), "orderDatetime")
  ELSE IF requireString(Get(orderData, "sourceReferenceOrderNumber"),
                        "sourceReferenceOrderNumber") # Pass
    THEN requireString(Get(orderData, "sourceReferenceOrderNumber"),
                       "sourceReferenceOrderNumber")
  ELSE IF validateOrderItems(Get(orderData, "orderItems"), TRUE) # Pass
    THEN validateOrderItems(Get(orderData, "orderItems"), TRUE)
  ELSE IF validateCustomer(Get(orderData, "shippingCustomer"), "shippingCustomer") # Pass
    THEN validateCustomer(Get(orderData, "shippingCustomer"), "shippingCustomer")
  ELSE IF Get(orderData, "sourceSystemBilling") = Bool(FALSE)
    THEN IF ~Truthy(Get(orderData, "billingCustomer"))
           THEN "billingCustomer is required when sourceSystemBilling is false"
           ELSE validateCustomer(Get(orderData, "billingCustomer"), "billingCustomer")
  ELSE Pass

validateOrderNumber(orderNumber) == requireString(orderNumber, "orderNumber")

-----------------------------------------------------------------------------
(* PrintApiError.js and the errors of the language *)

\* String(v), as the Error constructor and template literals apply it
RECURSIVE ToStringJS(_)
RECURSIVE joinFrom(_, _)
joinFrom(a, i) ==
  IF i > Len(a) THEN ""
  ELSE (IF a[i] \in {Null, Undef} THEN "" ELSE ToStringJS(a[i]).text)
       \o (IF i < Len(a) THEN "," ELSE "")
       \o joinFrom(a, i + 1)

ToStringJS(v) ==
  CASE v.t = "string" -> v
    [] v.t = "undefined" -> Txt("undefined")
    [] v.t = "null" -> Txt("null")
    [] v.t = "boolean" -> Txt(IF v.b THEN "true" ELSE "false")
    [] v.t = "number" ->
         Txt(IF v.nan THEN "NaN"
             ELSE ToString(v.n) \o (IF v.frac THEN ".5" ELSE ""))
    [] v.t = "array" -> Txt(joinFrom(v.a, 1))
    [] OTHER -> Txt("[object Object]")

\* new Error(message)
Error(message) == [name |-> "Error", message |-> Txt(message)]

\* the TypeError the language raises when null or undefined is destructured
TypeError(message) == [name |-> "TypeError", message |-> Txt(message)]

\* new PrintApiError(status, errorType, message, details = {})
PrintApiError(status, errorType, message, details) ==
  [ name |-> "PrintApiError",
    message |-> ToStringJS(message),
    status |-> status,
    errorType |-> errorType,
    details |-> IF details = Undef THEN EmptyObj ELSE details ]

\* err instanceof PrintApiError
IsPrintApiError(err) == err.name = "PrintApiError"

-----------------------------------------------------------------------------
(* JSON.stringify, read back: the JSON document the serialised text        *)
(* denotes.  A property whose value is undefined is dropped, undefined in  *)
(* an array and NaN become null.                                           *)

RECURSIVE JSONstringify(_)
JSONstringify(v) ==
  CASE v.t = "object" ->
         Obj([k \in {x \in DOMAIN v.f : v.f[x] # Undef} |-> JSONstringify(v.f[k])])
    [] v.t = "array" ->
         Arr([i \in 1..Len(v.a) |->
                IF v.a[i] = Undef THEN Null ELSE JSONstringify(v.a[i])])
    [] v.t = "number" -> IF v.nan THEN Null ELSE v
    [] OTHER -> v

-----------------------------------------------------------------------------
(* PrintApiClient.js: construction *)

DefaultBaseUrl ==
  <<"h","t","t","p","s",":","/","/","p","r","i","n","t","a","p","i",".",
    "n","e","t","/","a","p","i","/","v","1">>

\* a variant that removes one trailing slash only
stripTrailingSlashes_once(s) ==
  IF s # <<>> /\ s[Len(s)] = "/"
  THEN SubSeq(s, 1, Len(s) - 1)
  ELSE s

\* baseUrl.replace(/\/+$/, '')
RECURSIVE stripTrailingSlashes(_)
stripTrailingSlashes(s) ==
  IF s # <<>> /\ s[Len(s)] = "/"
  THEN stripTrailingSlashes(SubSeq(s, 1, Len(s) - 1))
  ELSE s

\* constructor({ apiKey, accountId, baseUrl = ..., testMode = false } = {}):
\* the error it throws, or the private fields of the new client.  The
\* parameter default applies to undefined only: null cannot be destructured,
\* and a baseUrl that is not a string has no replace method.
constructor(config) ==
  LET cfg == IF config = Undef THEN EmptyObj ELSE config
      apiKey == Get(cfg, "apiKey")
      accountId == Get(cfg, "accountId")
      baseUrl == IF Get(cfg, "baseUrl") = Undef
                 THEN Str(DefaultBaseUrl) ELSE Get(cfg, "baseUrl")
      testMode == IF Get(cfg, "testMode") = Undef
                  THEN Bool(FALSE) ELSE Get(cfg, "testMode")
  IN
  IF config = Null
    THEN [ok |-> FALSE,
          error |-> TypeError("Cannot destructure property 'apiKey' of 'object null' as it is null.")]
  ELSE IF ~IsString(apiKey) \/ trim(apiKey.chars) = <<>>
    THEN [ok |-> FALSE, error |-> Error("apiKey is required")]
  ELSE IF ~IsString(accountId) \/ trim(accountId.chars) = <<>>
    THEN [ok |-> FALSE, error |-> Error("accountId is required")]
  ELSE IF ~IsString(baseUrl)
    THEN [ok |-> FALSE, error |-> TypeError("baseUrl.replace is not a function")]
  ELSE [ok |-> TRUE,
        this |-> [ apiKey |-> apiKey,
                   accountId |-> accountId,
                   baseUrl |-> stripTrailingSlashes(baseUrl.chars),
                   testMode |-> testMode ]]

-----------------------------------------------------------------------------
(* PrintApiClient.js: #request.  A call is a record                       *)
(*   op, arg   the facade method and its argument                          *)
(*   pc        "idle", "fetch" (suspended at await fetch), "json"          *)
(*             (suspended at await response.json()) or "done"              *)
(*   sent      the (url, options) pairs handed to fetch, in order          *)
(*   failure   what fetch rejected with                                    *)
(*   response  the Response fetch resolved with                            *)
(*   outcome   how the promise settled                                     *)

NoResponse == [status |-> 0, ok |-> FALSE, body |-> Undef]
NoFailure == [name |-> "none", message |-> Txt("")]
Pending == [kind |-> "pending"]
Returned(value) == [kind |-> "return", value |-> value]
Thrown(err) == [kind |-> "throw", error |-> err]

IdleCall ==
  [ op |-> "none", arg |-> Undef, pc |-> "idle", sent |-> <<>>,
    failure |-> NoFailure, response |-> NoResponse, outcome |-> Pending ]

\* a facade method whose validator threw before #request was entered
Rejected(op, arg, message) ==
  [ op |-> op, arg |-> arg, pc |-> "done", sent |-> <<>>,
    failure |-> NoFailure, response |-> NoResponse, outcome |-> Thrown(Error(message)) ]

\* url.searchParams.set(key, value) for the entries whose value != null
RECURSIVE searchParams(_)
searchParams(entries) ==
  IF entries = <<>> THEN <<>>
  ELSE (IF Head(entries)[2] \in {Null, Undef}
        THEN <<>>
        ELSE << <<Head(entries)[1], ToStringJS(Head(entries)[2])>> >>)
       \o searchParams(Tail(entries))

\* a variant that sets Content-Type on every request
fetchArguments_contentTypeAlways(this, method, path, query, body) ==
  [ method |-> method,
    url |-> [ href |-> this.baseUrl \o path,
              search |-> IF query = Undef THEN <<>> ELSE searchParams(query) ],
    headers |-> ("X-API-Key" :> this.apiKey)
                @@ ("Content-Type" :> Txt("application/json")),
    body |-> IF Truthy(body) THEN JSONstringify(body) ELSE Undef ]

\* lines 226-239 of #request: the url and the options handed to fetch
fetchArguments(this, method, path, query, body) ==
  [ method |-> method,
    url |-> [ href |-> this.baseUrl \o path,
              search |-> IF query = Undef THEN <<>> ELSE searchParams(query) ],
    headers |-> IF Truthy(body)
                THEN ("X-API-Key" :> this.apiKey)
                     @@ ("Content-Type" :> Txt("application/json"))
                ELSE ("X-API-Key" :> this.apiKey),
    body |-> IF Truthy(body) THEN JSONstringify(body) ELSE Undef ]

\* #request up to its first suspension: fetch is invoked once
request(this, op, arg, method, path, query, body) ==
  [ op |-> op, arg |-> arg, pc |-> "fetch",
    sent |-> << fetchArguments(this, method, path, query, body) >>,
    failure |-> NoFailure, response |-> NoResponse, outcome |-> Pending ]

\* a variant that invokes fetch a second time after a transport failure
requestFetchRejected_retry(call, err) ==
  IF Len(call.sent) < 2
  THEN [ call EXCEPT !.sent = Append(@, @[1]) ]
  ELSE [ call EXCEPT
           !.pc = "done",
           !.failure = err,
           !.outcome = Thrown(PrintApiError(0, Txt("NetworkError"),
                                Txt("Request failed: " \o err.message.text), Undef)) ]

\* a variant that lets the transport's own error through
requestFetchRejected_rethrow(call, err) ==
  [ call EXCEPT !.pc = "done", !.failure = err, !.outcome = Thrown(err) ]

\* catch (err) of await fetch: lines 244-246
requestFetchRejected(call, err) ==
  [ call EXCEPT
      !.pc = "done",
      !.failure = err,
      !.outcome = Thrown(PrintApiError(0, Txt("NetworkError"),
                           Txt("Request failed: " \o err.message.text), Undef)) ]

\* fetch resolved: the response is kept and response.json() is awaited
requestFetchResolved(call, response) ==
  [ call EXCEPT !.pc = "json", !.response = response ]

\* a variant that looks at the status before the parse failure
requestJsonRejected_byStatus(call) ==
  IF call.response.ok
  THEN [ call EXCEPT !.pc = "done", !.outcome = Returned(Undef) ]
  ELSE [ call EXCEPT
           !.pc = "done",
           !.outcome = Thrown(PrintApiError(call.response.status,
                                Txt("HTTP " \o ToString(call.response.status)),
                                Txt("Unknown error"), Undef)) ]

\* catch of await response.json(): lines 251-257
requestJsonRejected(call) ==
  [ call EXCEPT
      !.pc = "done",
      !.outcome = Thrown(PrintApiError(call.response.status, Txt("ParseError"),
                           Txt("Failed to parse response (HTTP "
                               \o ToString(call.response.status) \o ")"),
                           Undef)) ]

\* const { error, message, ...rest } = data, for data an object, an array,
\* a string or another primitive (null and undefined cannot be destructured)
\* a variant whose rest keeps the error label
restOf_keepsLabel(data) == Without(data, "message")

restOf(data) == Without(Without(data, "error"), "message")

\* a variant that falls back only for a missing or null field (?? for ||)
errorOfResponse_nullish(status, data) ==
  IF data \in {Null, Undef}
  THEN TypeError("Cannot destructure property 'error' of 'data' as it is null.")
  ELSE LET errorType == Get(data, "error")
           message == Get(data, "message")
       IN PrintApiError(status,
            IF errorType \notin {Null, Undef} THEN errorType
                                              ELSE Txt("HTTP " \o ToString(status)),
            IF message \notin {Null, Undef} THEN message ELSE Txt("Unknown error"),
            restOf(data))

\* lines 259-267: the error raised for a parsed body of a response that is not ok
errorOfResponse(status, data) ==
  IF data \in {Null, Undef}
  THEN TypeError("Cannot destructure property 'error' of 'data' as it is null.")
  ELSE LET errorType == Get(data, "error")
           message == Get(data, "message")
       IN PrintApiError(status,
            IF Truthy(errorType) THEN errorType
                                 ELSE Txt("HTTP " \o ToString(status)),
            IF Truthy(message) THEN message ELSE Txt("Unknown error"),
            restOf(data))

\* response.json() resolved with data: lines 259-269
requestJsonResolved(call, data) ==
  IF ~call.response.ok
  THEN [ call EXCEPT !.pc = "done",
                     !.outcome = Thrown(errorOfResponse(call.response.status, data)) ]
  ELSE [ call EXCEPT !.pc = "done", !.outcome = Returned(data) ]

-----------------------------------------------------------------------------
(* PrintApiClient.js: the facade methods, each up to its first suspension *)

CatalogPath == <<"/","c","a","t","a","l","o","g">>
PricingPath == <<"/","p","r","i","c","i","n","g">>
OrderPath == <<"/","o","r","d","e","r">>
OrderStatusPath == <<"/","o","r","d","e","r","s","t","a","t","u","s">>
CancelOrderPath == <<"/","c","a","n","c","e","l","o","r","d","e","r">>

getCatalog(this) ==
  request(this, "getCatalog", Undef, "GET", CatalogPath, Undef, Undef)

\* a variant that prices one item at a time
checkPricing_singleItem(this, orderItems) ==
  IF validateOrderItems(orderItems, FALSE) # Pass
  THEN Rejected("checkPricing", orderItems, validateOrderItems(orderItems, FALSE))
  ELSE IF Len(orderItems.a) > 1
  THEN Rejected("checkPricing", orderItems, "orderItems must hold a single item")
  ELSE request(this, "checkPricing", orderItems, "POST", PricingPath, Undef,
               Obj([accountId |-> this.accountId, orderItems |-> orderItems]))

\* a variant that asks for files as createOrder does
checkPricing_requiresFiles(this, orderItems) ==
  IF validateOrderItems(orderItems, TRUE) # Pass
  THEN Rejected("checkPricing", orderItems, validateOrderItems(orderItems, TRUE))
  ELSE request(this, "checkPricing", orderItems, "POST", PricingPath, Undef,
               Obj([accountId |-> this.accountId, orderItems |-> orderItems]))

checkPricing(this, orderItems) ==
  IF validateOrderItems(orderItems, FALSE) # Pass
  THEN Rejected("checkPricing", orderItems, validateOrderItems(orderItems, FALSE))
  ELSE request(this, "checkPricing", orderItems, "POST", PricingPath, Undef,
               Obj([accountId |-> this.accountId, orderItems |-> orderItems]))

\* a variant that spreads orderData after the injected accountId
createOrderBody_callerWins(this, orderData) ==
  LET injected == IF "accountId" \in DOMAIN OwnProps(orderData)
                  THEN Obj(OwnProps(orderData))
                  ELSE With(orderData, "accountId", this.accountId)
  IN IF Truthy(this.testMode)
     THEN With(injected, "testOrder", Bool(TRUE))
     ELSE injected

\* a variant in which testMode only supplies a default for testOrder
createOrderBody_testOrderDefault(this, orderData) ==
  LET injected == With(orderData, "accountId", this.accountId)
  IN IF Truthy(this.testMode) /\ "testOrder" \notin DOMAIN OwnProps(orderData)
     THEN With(injected, "testOrder", Bool(TRUE))
     ELSE injected

\* { ...orderData, accountId: this.#accountId, ...(this.#testMode && { testOrder: true }) }
createOrderBody(this, orderData) ==
  LET injected == With(orderData, "accountId", this.accountId)
  IN IF Truthy(this.testMode)
     THEN With(injected, "testOrder", Bool(TRUE))
     ELSE injected

\* a variant that sends the order without validating it
createOrder_unvalidated(this, orderData) ==
  request(this, "createOrder", orderData, "POST", OrderPath, Undef,
          createOrderBody(this, orderData))

createOrder(this, orderData) ==
  IF validateCreateOrderData(orderData) # Pass
  THEN Rejected("createOrder", orderData, validateCreateOrderData(orderData))
  ELSE request(this, "createOrder", orderData, "POST", OrderPath, Undef,
               createOrderBody(this, orderData))

\* a variant that passes no accountId, so that the query omits it
getOrderStatus_noAccountId(this, orderNumber) ==
  IF validateOrderNumber(orderNumber) # Pass
  THEN Rejected("getOrderStatus", orderNumber, validateOrderNumber(orderNumber))
  ELSE request(this, "getOrderStatus", orderNumber, "GET", OrderStatusPath,
               << <<"accountId", Undef>>, <<"orderNumber", orderNumber>> >>,
               Undef)

getOrderStatus(this, orderNumber) ==
  IF validateOrderNumber(orderNumber) # Pass
  THEN Rejected("getOrderStatus", orderNumber, validateOrderNumber(orderNumber))
  ELSE request(this, "getOrderStatus", orderNumber, "GET", OrderStatusPath,
               << <<"accountId", this.accountId>>, <<"orderNumber", orderNumber>> >>,
               Undef)

\* a variant that sends the order number trimmed
cancelOrder_trimmed(this, orderNumber) ==
  IF validateOrderNumber(orderNumber) # Pass
  THEN Rejected("cancelOrder", orderNumber, validateOrderNumber(orderNumber))
  ELSE request(this, "cancelOrder", orderNumber, "POST", CancelOrderPath, Undef,
               Obj([accountId |-> this.accountId,
                    orderNumber |-> Str(trim(orderNumber.chars))]))

cancelOrder(this, orderNumber) ==
  IF validateOrderNumber(orderNumber) # Pass
  THEN Rejected("cancelOrder", orderNumber, validateOrderNumber(orderNumber))
  ELSE request(this, "cancelOrder", orderNumber, "POST", CancelOrderPath, Undef,
               Obj([accountId |-> this.accountId, orderNumber |-> orderNumber]))

-----------------------------------------------------------------------------
(* The callers' inputs *)

\* the largest number of items in the enumerated item lists
MaxItems == 2

sTAB == <<"T","A","B","_","1","D">>
sUrl == HttpsScheme \o <<"x",".","c","o","/","a",".","p","d","f">>
sHttpUrl == <<"h","t","t","p",":","/","/","x",".","c","o","/","a">>
sEmail == <<"j","@","x",".","c","o">>
sPhone == <<"5","5","5","-","1","2","3","-","4","5","6","7">>
sShortPhone == <<"5","5","5","-","1","2","3","4">>
sDate == <<"2","0","2","4","-","0","1","-","1","5">>
sRef == <<"M","Y","-","0","0","1">>
sOrderNumber == <<"A","T","E","S","T","-","1">>
sBlank == <<" ", "\t">>
sKey == <<"k","e","y">>
sAccount == <<"1","2","3","4">>
sOtherAccount == <<"w","r","o","n","g","-","i","d">>
sCustomBase == <<"h","t","t","p","s",":","/","/","s","t","a","g","e",".","x","/","v","1">>

\* o with property k set to v, or left without it when v is Absent
Absent == [t |-> "absent"]
Field(o, k, v) == IF v = Absent THEN o ELSE With(o, k, v)

itemPlain ==
  Obj([ sku |-> Str(sTAB), productType |-> Str(Newsletter),
        quantity |-> Num(100), staple |-> Bool(TRUE) ])
itemCustom ==
  Obj([ sku |-> Str(LFP_CS), productType |-> Str(LFP), quantity |-> Num(2),
        longEdge |-> Num(48), shortEdge |-> NumHalf(36) ])

\* one item per check of validateOrderItems that it fails
BadItems ==
  { Null, Undef, Arr(<<>>), Num(1),
    Without(itemPlain, "sku"), With(itemPlain, "sku", Str(sBlank)),
    With(itemPlain, "sku", Num(7)),
    Without(itemPlain, "productType"), With(itemPlain, "productType", Str(sTAB)),
    With(itemPlain, "quantity", Num(0)), With(itemPlain, "quantity", Num(1001)),
    With(itemPlain, "quantity", NumHalf(1)), With(itemPlain, "quantity", NaN),
    With(itemPlain, "quantity", Str(<<"5">>)), Without(itemPlain, "quantity"),
    Without(itemCustom, "longEdge"), With(itemCustom, "longEdge", Num(0)),
    Without(itemCustom, "shortEdge"), With(itemCustom, "shortEdge", Num(-1)),
    With(itemCustom, "shortEdge", Str(<<"3">>)) }

ListItems == { itemPlain, itemCustom, With(itemPlain, "quantity", Num(0)) }

\* every list of 1..n items drawn from S, as sequences
RECURSIVE SeqsUpTo(_, _)
SeqsUpTo(S, n) ==
  IF n = 0 THEN { <<>> }
  ELSE SeqsUpTo(S, n - 1)
       \cup { Append(q, x) : q \in { r \in SeqsUpTo(S, n - 1) : Len(r) = n - 1 }, x \in S }

zeroQuantity == With(itemPlain, "quantity", Num(0))

\* lists where an item's quantity is not the only thing wrong
MixedItemLists ==
  { <<Without(zeroQuantity, "sku")>>,
    <<With(zeroQuantity, "productType", Str(sTAB))>>,
    <<Without(itemPlain, "sku"), zeroQuantity>>,
    <<Null, With(itemPlain, "quantity", NumHalf(1))>>,
    <<Without(With(itemCustom, "quantity", Num(1001)), "longEdge")>> }

\* the files an item of a pricing request may carry
FilesValues ==
  { Arr(<<>>), Arr(<<Str(sHttpUrl)>>), Arr(<<Str(sUrl)>>), Str(sUrl) }

OrderItemsInputs ==
  { Undef, Null, Obj([length |-> Num(1)]), Str(sTAB) }
  \cup { Arr(q) : q \in SeqsUpTo(ListItems, MaxItems) }
  \cup { Arr(<<x>>) : x \in BadItems }
  \cup { Arr(<<itemPlain, x>>) : x \in BadItems }
  \cup { Arr(q) : q \in MixedItemLists }
  \cup { Arr(<<Field(itemPlain, "files", files)>>) : files \in FilesValues }

WithFiles(item) == With(item, "files", Arr(<<Str(sUrl)>>))

shippingCustomer ==
  Obj([ firstName |-> Str(<<"J","o">>), lastName |-> Str(<<"D","o","e">>),
        email |-> Str(sEmail), phone |-> Str(sPhone),
        address1 |-> Str(<<"1"," ","M","a","i","n">>), city |-> Str(<<"P","D","X">>),
        state |-> Str(<<"O","R">>), zip |-> Str(<<"9","7","2","0","1">>),
        shipmentTrackingEmail |-> Arr(<<Str(sEmail)>>) ])

billingCustomer ==
  With(Without(shippingCustomer, "shipmentTrackingEmail"),
       "billingInvoiceEmails", Arr(<<Str(sEmail)>>))

orderPayload ==
  Obj([ orderDatetime |-> Str(sDate),
        sourceReferenceOrderNumber |-> Str(sRef),
        orderItems |-> Arr(<<WithFiles(itemPlain)>>),
        shippingCustomer |-> shippingCustomer ])

\* the accountId and testOrder a caller may put into orderData
CallerAccountIds == { Null, Str(sOtherAccount), Num(7) }
CallerTestOrders == { Undef, Bool(TRUE), Bool(FALSE) }

ValidOrderPayloads ==
  { Field(Field(orderPayload, "accountId", a), "testOrder", b) :
      a \in {Absent} \cup (CallerAccountIds \ {Num(7)}),
      b \in {Absent} \cup CallerTestOrders }
  \cup { With(With(orderPayload, "accountId", Num(7)), "testOrder", Bool(FALSE)) }
  \cup { With(orderPayload, "sourceSystemBilling", Bool(TRUE)),
         With(With(orderPayload, "sourceSystemBilling", Bool(FALSE)),
              "billingCustomer", billingCustomer),
         With(orderPayload, "orderItems",
              Arr(<<WithFiles(itemCustom), WithFiles(itemPlain)>>)),
         With(orderPayload, "orderItems",
              Arr(<<WithFiles(With(itemCustom, "longEdge", NaN))>>)),
         With(With(orderPayload, "sourceSystemBilling", Bool(TRUE)),
              "billingCustomer", With(billingCustomer, "state", Str(<<"A","K">>))),
         With(orderPayload, "shippingCustomer",
              With(shippingCustomer, "state", Str(<<"o","r">>))) }

\* one payload per check of validateCreateOrderData that it fails
InvalidOrderPayloads ==
  { Undef, Null, Num(1), Str(sRef), Arr(<<>>),
    Without(orderPayload, "orderDatetime"),
    With(orderPayload, "sourceReferenceOrderNumber", Str(sBlank)),
    Without(orderPayload, "orderItems"),
    With(orderPayload, "orderItems", Arr(<<>>)),
    With(orderPayload, "orderItems", Arr(<<itemPlain>>)),
    With(orderPayload, "orderItems", Arr(<<WithFiles(itemPlain), itemCustom>>)),
    With(orderPayload, "orderItems", Arr(<<With(itemCustom, "files", Str(sUrl))>>)),
    With(orderPayload, "orderItems", Arr(<<With(itemPlain, "files", Arr(<<>>))>>)),
    With(orderPayload, "orderItems",
         Arr(<<With(itemPlain, "files", Arr(<<Str(sUrl), Str(sHttpUrl)>>))>>)),
    With(orderPayload, "orderItems",
         Arr(<<WithFiles(itemPlain), WithFiles(With(itemPlain, "quantity", Num(0)))>>)),
    With(Without(orderPayload, "orderDatetime"), "orderItems", Arr(<<zeroQuantity>>)),
    With(orderPayload, "orderItems", Arr(<<zeroQuantity>>)),
    With(orderPayload, "orderItems", Arr(<<Without(zeroQuantity, "sku")>>)),
    With(orderPayload, "orderItems", Arr(<<itemPlain, WithFiles(zeroQuantity)>>)),
    Without(orderPayload, "shippingCustomer"),
    With(orderPayload, "shippingCustomer", Without(shippingCustomer, "firstName")),
    With(orderPayload, "shippingCustomer", With(shippingCustomer, "phone", Str(sShortPhone))),
    With(orderPayload, "shippingCustomer", With(shippingCustomer, "email", Str(sTAB))),
    With(orderPayload, "shippingCustomer", With(shippingCustomer, "state", Str(<<"A","K">>))),
    With(orderPayload, "shippingCustomer", With(shippingCustomer, "state", Str(<<"h","i">>))),
    With(orderPayload, "shippingCustomer",
         With(shippingCustomer, "shipmentTrackingEmail", Arr(<<>>))),
    With(orderPayload, "shippingCustomer",
         With(shippingCustomer, "shipmentTrackingEmail",
              Arr(<<Str(sEmail), Str(sEmail), Str(sEmail), Str(sEmail)>>))),
    With(orderPayload, "shippingCustomer",
         With(shippingCustomer, "shipmentTrackingEmail", Arr(<<Str(sEmail), Str(sTAB)>>))),
    With(orderPayload, "sourceSystemBilling", Bool(FALSE)),
    With(With(orderPayload, "sourceSystemBilling", Bool(FALSE)),
         "billingCustomer", With(billingCustomer, "state", Str(<<"A","K">>))),
    With(With(orderPayload, "sourceSystemBilling", Bool(FALSE)),
         "billingCustomer", With(billingCustomer, "billingInvoiceEmails", Str(sEmail))) }

\* the createOrder example of the README (orderDatetime as toISOString gives it)
readmeOrder ==
  Obj([ orderDatetime |-> Str(<<"2","0","2","4","-","0","1","-","1","5","T","1","0",":","3","0",":","0","0",".","0","0","0","Z">>),
        sourceReferenceOrderNumber |-> Str(<<"Y","O","U","R","-","O","R","D","E","R","-","0","0","1">>),
        orderItems |-> Arr(<<
          Obj([ sku |-> Str(<<"T","A","B","_","2","D","_","1","6","P">>),
                productType |-> Str(Newsletter),
                quantity |-> Num(100),
                staple |-> Bool(TRUE),
                files |-> Arr(<<Str(<<"h","t","t","p","s",":","/","/","y","o","u","r","-","s","e","r","v","e","r",".","c","o","m","/","n","e","w","s","l","e","t","t","e","r",".","p","d","f">>)>>) ]) >>),
        shippingCustomer |->
          Obj([ firstName |-> Str(<<"J","o","h","n">>), lastName |-> Str(<<"D","o","e">>),
                email |-> Str(<<"j","o","h","n","@","e","x","a","m","p","l","e",".","c","o","m">>),
                phone |-> Str(<<"5","5","5","-","1","2","3","4">>),
                address1 |-> Str(<<"1","2","3"," ","M","a","i","n"," ","S","t">>),
                city |-> Str(<<"P","o","r","t","l","a","n","d">>),
                state |-> Str(<<"O","R">>), zip |-> Str(<<"9","7","2","0","1">>),
                shipmentTrackingEmail |-> Arr(<<Str(<<"j","o","h","n","@","e","x","a","m","p","l","e",".","c","o","m">>)>>) ]) ])

\* the @example of createOrder's documentation comment
docCommentOrder ==
  Obj([ orderDatetime |-> Str(<<"2","0","2","4","-","0","1","-","1","5","T","1","0",":","3","0",":","0","0","Z">>),
        sourceReferenceOrderNumber |-> Str(<<"M","Y","-","O","R","D","E","R","-","0","0","1">>),
        orderItems |-> Arr(<<
          Obj([ sku |-> Str(<<"T","A","B","_","2","D","_","1","6","P">>),
                productType |-> Str(Newsletter),
                quantity |-> Num(100),
                staple |-> Bool(TRUE),
                files |-> Arr(<<Str(<<"h","t","t","p","s",":","/","/","e","x","a","m","p","l","e",".","c","o","m","/","n","e","w","s","l","e","t","t","e","r",".","p","d","f">>)>>) ]) >>),
        shippingCustomer |->
          Obj([ firstName |-> Str(<<"J","o","h","n">>), lastName |-> Str(<<"D","o","e">>),
                email |-> Str(<<"j","o","h","n","@","t","e","s","t",".","c","o","m">>),
                phone |-> Str(<<"5","5","5","-","1","2","3","4">>),
                address1 |-> Str(<<"1","2","3"," ","M","a","i","n"," ","S","t">>),
                city |-> Str(<<"P","o","r","t","l","a","n","d">>),
                state |-> Str(<<"O","R">>), zip |-> Str(<<"9","7","2","0","1">>),
                shipmentTrackingEmail |-> Arr(<<Str(<<"j","o","h","n","@","t","e","s","t",".","c","o","m">>)>>) ]) ])

ExamplePayloads == { readmeOrder, docCommentOrder }

OrderDataInputs == ValidOrderPayloads \cup InvalidOrderPayloads \cup ExamplePayloads

OrderNumberInputs ==
  { Str(sOrderNumber), Str(<<"n","u","l","l">>), Str(<<" ","A","1"," ">>),
    Str(<<>>), Str(sBlank), Undef, Null, Num(12345),
    Arr(<<Str(sOrderNumber)>>) }

-----------------------------------------------------------------------------
(* The transport and the remote system *)

\* what fetch rejects with: an Error carrying the transport's message
TransportErrors ==
  { Error("ECONNREFUSED"), TypeError("fetch failed"), Error("") }

Statuses == { 200, 299, 300, 409, 500 }

\* Response.ok
Ok(status) == status >= 200 /\ status <= 299

\* a body response.json() cannot parse
Unparseable == [t |-> "unparseable"]

ErrorFields == { Absent, Null, Txt(""), Txt("Conflict"), Num(0) }
MessageFields == { Absent, Null, Txt(""), Txt("Duplicate order"), Num(42) }
ExtraFields ==
  { EmptyObj,
    Obj([existingOrderNumber |-> Txt("ATEST-0000001")]),
    Obj([item |-> Obj([sku |-> Txt("TAB_1D"), quantity |-> Num(100)]),
         grandTotal |-> Num(365)]) }

ObjectBodies ==
  { Field(Field(x, "error", e), "message", m) :
      x \in ExtraFields, e \in ErrorFields, m \in MessageFields }

ResponseBodies ==
  ObjectBodies
  \cup { Unparseable, Null, Num(5), Bool(FALSE), Str(<<"o","k">>),
         Arr(<<Txt("Conflict"), Num(1)>>) }

Response(status, body) == [status |-> status, ok |-> Ok(status), body |-> body]

-----------------------------------------------------------------------------
(* The state machine: one client, whose caller awaits each call before     *)
(* issuing the next.                                                       *)

\* config:   the argument the constructor was called with
\* client:   the private fields #apiKey, #accountId, #baseUrl, #testMode
\* call:     the facade call in progress
\* payload:  an object the caller owns and passes by reference
\* inflight: the calls in progress when the caller does not await each one
VARIABLES config, client, call, payload, inflight
vars == <<config, client, call, payload, inflight>>

Configs ==
  { Obj([apiKey |-> Str(sKey), accountId |-> Str(sAccount)]),
    Obj([apiKey |-> Str(sKey), accountId |-> Str(sAccount), testMode |-> Bool(TRUE)]),
    Obj([apiKey |-> Str(sKey), accountId |-> Str(sOtherAccount),
         baseUrl |-> Str(sCustomBase \o <<"/","/">>), testMode |-> Bool(FALSE)]),
    Obj([apiKey |-> Str(sKey), accountId |-> Str(sOtherAccount),
         baseUrl |-> Str(sCustomBase), testMode |-> Bool(TRUE)]),
    Obj([apiKey |-> Str(<<" ">> \o sKey), accountId |-> Str(sAccount),
         baseUrl |-> Str(sCustomBase \o <<"/">>)]),
    Obj([apiKey |-> Str(sKey), accountId |-> Str(sBlank)]),
    Obj([accountId |-> Str(sAccount)]),
    Undef }

Init ==
  /\ config \in Configs
  /\ constructor(config).ok
  /\ client = constructor(config).this
  /\ call = IdleCall
  /\ payload = Undef
  /\ inflight = <<>>

Ready == call.pc = "idle"

GetCatalog ==
  /\ Ready
  /\ call' = getCatalog(client)
  /\ UNCHANGED <<config, client, payload, inflight>>

CheckPricing ==
  /\ Ready
  /\ \E orderItems \in OrderItemsInputs : call' = checkPricing(client, orderItems)
  /\ UNCHANGED <<config, client, payload, inflight>>

\* a variant in which the client adopts the accountId of the caller's order
CreateOrder_adoptsAccountId ==
  /\ Ready
  /\ \E orderData \in OrderDataInputs :
       /\ call' = createOrder(client, orderData)
       /\ client' = IF IsString(Get(orderData, "accountId"))
                    THEN [client EXCEPT !.accountId = Get(orderData, "accountId")]
                    ELSE client
  /\ UNCHANGED <<config, payload, inflight>>

CreateOrder ==
  /\ Ready
  /\ \E orderData \in OrderDataInputs : call' = createOrder(client, orderData)
  /\ UNCHANGED <<config, client, payload, inflight>>

GetOrderStatus ==
  /\ Ready
  /\ \E orderNumber \in OrderNumberInputs : call' = getOrderStatus(client, orderNumber)
  /\ UNCHANGED <<config, client, payload, inflight>>

CancelOrder ==
  /\ Ready
  /\ \E orderNumber \in OrderNumberInputs : call' = cancelOrder(client, orderNumber)
  /\ UNCHANGED <<config, client, payload, inflight>>

FetchRejects ==
  /\ call.pc = "fetch"
  /\ \E err \in TransportErrors : call' = requestFetchRejected(call, err)
  /\ UNCHANGED <<config, client, payload, inflight>>

FetchResolves ==
  /\ call.pc = "fetch"
  /\ \E status \in Statuses, body \in ResponseBodies :
       call' = requestFetchResolved(call, Response(status, body))
  /\ UNCHANGED <<config, client, payload, inflight>>

JsonRejects ==
  /\ call.pc = "json"
  /\ call.response.body = Unparseable
  /\ call' = requestJsonRejected(call)
  /\ UNCHANGED <<config, client, payload, inflight>>

JsonResolves ==
  /\ call.pc = "json"
  /\ call.response.body # Unparseable
  /\ call' = requestJsonResolved(call, call.response.body)
  /\ UNCHANGED <<config, client, payload, inflight>>

\* the caller's await resumes with the outcome, and it may call again
Settle ==
  /\ call.pc = "done"
  /\ call' = IdleCall
  /\ UNCHANGED <<config, client, payload, inflight>>

Next ==
  \/ GetCatalog
  \/ CheckPricing
  \/ CreateOrder
  \/ GetOrderStatus
  \/ CancelOrder
  \/ FetchRejects
  \/ FetchResolves
  \/ JsonRejects
  \/ JsonResolves
  \/ Settle

Spec == Init /\ [][Next]_vars

TypeOK ==
  /\ call.pc \in {"idle", "fetch", "json", "done"}
  /\ call.outcome.kind \in {"pending", "return", "throw"}

-----------------------------------------------------------------------------
(* The operations that never reach the network, called directly:          *)
(* new PrintApiClient(config) and the exported validators of validate.js.  *)
(* The call record holds the arguments and how the operation ended.        *)

\* a synchronous operation that has returned value or thrown err
Finished(op, arg, outcome) ==
  [ op |-> op, arg |-> arg, pc |-> "done", sent |-> <<>>,
    failure |-> NoFailure, response |-> NoResponse, outcome |-> outcome ]

\* a validator returns undefined or throws new Error(message)
Validated(op, arg, message) ==
  Finished(op, arg, IF message = Pass THEN Returned(Undef)
                                     ELSE Thrown(Error(message)))

KeyValues ==
  { Absent, Undef, Null, Num(12345), Bool(TRUE), Arr(<<Str(sKey)>>),
    Str(<<>>), Str(sBlank), Str(<<" ">> \o sKey), Str(sKey) }

BaseUrlValues == { Absent, Str(sCustomBase \o <<"/">>), Null, Num(8080) }

ConstructorInputs ==
  { Undef, Null, EmptyObj, Num(5), Str(sKey) }
  \cup { Field(Field(Field(EmptyObj, "apiKey", k), "accountId", a), "baseUrl", u) :
           k \in KeyValues, a \in KeyValues, u \in BaseUrlValues }

Construct ==
  /\ Ready
  /\ \E cfg \in ConstructorInputs :
       call' = Finished("constructor", cfg,
                        IF constructor(cfg).ok
                        THEN Returned(constructor(cfg).this)
                        ELSE Thrown(constructor(cfg).error))
  /\ UNCHANGED <<config, client, payload, inflight>>

ValidateOrderNumber ==
  /\ Ready
  /\ \E orderNumber \in OrderNumberInputs :
       call' = Validated("validateOrderNumber", orderNumber,
                         validateOrderNumber(orderNumber))
  /\ UNCHANGED <<config, client, payload, inflight>>

\* the values a dimension of an item may hold
DimensionValues ==
  { Absent, Undef, Null, Str(<<"4","8">>), Num(-1), Num(0), NumHalf(0),
    Num(48), NaN }

\* items that differ in sku, productType and dimensions only
DimensionItems ==
  { Field(Field(With(With(itemPlain, "sku", Str(sku)), "productType", Str(productType)),
                "longEdge", longEdge), "shortEdge", shortEdge) :
      sku \in { LFP_CS, sTAB, <<"l","f","p","_","c","s">> },
      productType \in { LFP, Newsletter },
      longEdge \in DimensionValues, shortEdge \in DimensionValues }

ValidateOrderItems ==
  /\ Ready
  /\ \E items \in OrderItemsInputs \cup { Arr(<<x>>) : x \in DimensionItems },
        requireFiles \in BOOLEAN :
       call' = Validated("validateOrderItems",
                         [items |-> items, requireFiles |-> requireFiles],
                         validateOrderItems(items, requireFiles))
  /\ UNCHANGED <<config, client, payload, inflight>>

Letters == { Upper[i] : i \in 1..26 } \cup { Lower[i] : i \in 1..26 }

\* every two-letter string in every letter case, and values of other shapes
StateValues ==
  { Str(<<a, b>>) : a \in Letters, b \in Letters }
  \cup { Absent, Undef, Null, Num(97), Arr(<<Str(<<"O","R">>)>>), Str(<<>>),
         Str(<<"O">>), Str(<<"O","R"," ">>), Str(<<"O","R","E">>),
         Str(<<"O","r","e","g","o","n">>) }

StateCustomers == { Field(Without(shippingCustomer, "state"), "state", v) : v \in StateValues }

CustomerLabels == { "shippingCustomer", "billingCustomer" }

\* the values a required text field of a customer may hold
TextValues ==
  { Absent, Undef, Null, Num(5), Bool(TRUE), Arr(<<Str(sTAB)>>),
    Str(<<>>), Str(<<" ">>), Str(sBlank), Str(<<" ","x"," ">>) }

PhoneValues ==
  TextValues
  \cup { Str(sShortPhone), Str(<<"5","5","5","1","2","3","4","5","6">>),
         Str(<<"5","5","5","1","2","3","4","5","6","7">>),
         Str(<<" "," "," "," "," "," "," "," "," "," ">>),
         Str(<<" "," "," "," "," "," "," "," "," ","5">>) }

EmailValues ==
  { Absent, Null, Num(5), Str(<<>>), Str(<<"j","@","x">>), Str(<<"j",".","x">>),
    Str(<<"@",".">>), Str(<<".","@">>), Arr(<<Str(sEmail)>>) }

\* customers with one base field changed, with two, and values that are no
\* customer at all
BaseCustomers ==
  { Field(Without(shippingCustomer, k), k, v) :
      k \in {"firstName", "lastName", "address1", "city", "zip"}, v \in TextValues }
  \cup { Field(Without(shippingCustomer, "phone"), "phone", v) : v \in PhoneValues }
  \cup { Field(Without(shippingCustomer, "email"), "email", v) : v \in EmailValues }
  \cup { Field(Without(With(shippingCustomer, "city", Str(<<" ">>)), "phone"), "phone", v) :
           v \in PhoneValues }
  \cup { With(With(shippingCustomer, "email", e), "state", Str(<<"A","K">>)) :
           e \in { Str(sEmail), Num(5) } }
  \cup { Undef, Null, Num(1), Bool(TRUE), Str(sTAB), Str(<<>>), Arr(<<>>), EmptyObj,
         billingCustomer }

\* the longest list of tracking addresses enumerated
MaxTrackingEmails == 4

EmailEntries == { Str(sEmail), Str(sTAB), Num(5) }

TrackingValues ==
  { Absent, Undef, Null, Str(sEmail), Obj([length |-> Num(1)]) }
  \cup { Arr(q) : q \in SeqsUpTo(EmailEntries, MaxTrackingEmails) }

TrackingCustomers ==
  { Field(Without(shippingCustomer, "shipmentTrackingEmail"),
          "shipmentTrackingEmail", v) : v \in TrackingValues }

CustomerInputs == StateCustomers \cup BaseCustomers \cup TrackingCustomers

ValidateCustomer ==
  /\ Ready
  /\ \E customer \in CustomerInputs, label \in CustomerLabels :
       call' = Validated("validateCustomer",
                         [customer |-> customer, label |-> label],
                         validateCustomer(customer, label))
  /\ UNCHANGED <<config, client, payload, inflight>>

BillingFlags ==
  { Absent, Undef, Null, Bool(FALSE), Bool(TRUE), Num(0), Str(<<>>),
    Str(<<"f","a","l","s","e">>) }

InvoiceValues ==
  { Absent, Undef, Null, Str(sEmail), Arr(<<>>), Arr(<<Str(sEmail)>>),
    Arr(<<Str(sEmail), Str(sTAB)>>), Arr(<<Num(5)>>),
    Arr(<<Str(sEmail), Str(sEmail), Str(sEmail), Str(sEmail)>>) }

BillingValues ==
  { Absent, Undef, Null, Num(0), Str(<<>>), Str(sTAB), Arr(<<>>), EmptyObj,
    shippingCustomer,
    With(billingCustomer, "state", Str(<<"A","K">>)),
    With(billingCustomer, "phone", Str(sShortPhone)),
    Without(billingCustomer, "lastName") }
  \cup { Field(Without(billingCustomer, "billingInvoiceEmails"),
               "billingInvoiceEmails", v) : v \in InvoiceValues }

\* order payloads that differ in sourceSystemBilling and billingCustomer only
BillingPayloads ==
  { Field(Field(orderPayload, "sourceSystemBilling", flag), "billingCustomer", b) :
      flag \in BillingFlags, b \in BillingValues }

\* items with no, one or two things wrong
OrderingItems ==
  { WithFiles(itemPlain), WithFiles(itemCustom), Null,
    WithFiles(Without(itemPlain, "sku")),
    WithFiles(With(itemPlain, "productType", Str(sTAB))),
    WithFiles(zeroQuantity),
    itemPlain,
    With(itemPlain, "files", Arr(<<Str(sUrl), Str(sHttpUrl), Num(5)>>)),
    Without(zeroQuantity, "sku"),
    With(With(itemPlain, "productType", Str(sTAB)), "quantity", Num(1001)),
    Without(Without(itemCustom, "longEdge"), "shortEdge"),
    WithFiles(With(Without(itemCustom, "shortEdge"), "longEdge", NaN)),
    WithFiles(With(itemCustom, "shortEdge", Num(0))) }

OrderingItemLists ==
  { Absent, Arr(<<>>) }
  \cup { Arr(<<x>>) : x \in OrderingItems }
  \cup { Arr(<<x, y>>) : x \in OrderingItems, y \in OrderingItems }

\* shipping customers with no, one or two things wrong
OrderingCustomers ==
  { shippingCustomer, Absent,
    Without(Without(shippingCustomer, "firstName"), "lastName"),
    With(Without(shippingCustomer, "lastName"), "email", Num(5)),
    With(With(shippingCustomer, "address1", Str(<<>>)), "state", Str(<<"A","K">>)),
    With(Without(shippingCustomer, "city"), "zip", Str(sBlank)),
    With(Without(shippingCustomer, "zip"), "phone", Str(sShortPhone)),
    With(Without(shippingCustomer, "phone"), "email", Str(sTAB)),
    With(With(shippingCustomer, "phone", Str(sShortPhone)), "email", Str(sTAB)),
    With(With(shippingCustomer, "email", Str(sTAB)), "state", Str(<<"H","I">>)),
    With(With(shippingCustomer, "state", Str(<<"H","I">>)),
         "shipmentTrackingEmail", Arr(<<>>)),
    With(shippingCustomer, "shipmentTrackingEmail",
         Arr(<<Str(sEmail), Str(sTAB), Num(5)>>)) }

\* order payloads with up to one thing wrong in each of their parts
OrderingPayloads ==
  { Field(Field(Field(Field(Field(
      Without(Without(orderPayload, "orderItems"), "shippingCustomer"),
        "orderDatetime", d), "sourceReferenceOrderNumber", r),
        "orderItems", items), "shippingCustomer", c), "sourceSystemBilling", b) :
      d \in { Str(sDate), Str(sBlank) },
      r \in { Str(sRef), Num(1) },
      items \in OrderingItemLists,
      c \in OrderingCustomers,
      b \in { Absent, Bool(FALSE) } }

ValidateCreateOrderData ==
  /\ Ready
  /\ \E orderData \in OrderDataInputs \cup BillingPayloads \cup OrderingPayloads :
       call' = Validated("validateCreateOrderData", orderData,
                         validateCreateOrderData(orderData))
  /\ UNCHANGED <<config, client, payload, inflight>>

NextLocal ==
  \/ Construct
  \/ ValidateCreateOrderData
  \/ ValidateOrderItems
  \/ ValidateCustomer
  \/ ValidateOrderNumber
  \/ Settle

SpecLocal == Init /\ [][NextLocal]_vars

-----------------------------------------------------------------------------
(* Calls issued without awaiting the previous one.  Each call of #request  *)
(* has its own url, options, response and data; the calls interleave at    *)
(* their awaits.  inflight[i] is the i-th of the caller's pending calls.   *)

\* how many calls the caller keeps in progress at once
MaxConcurrent == 2

Slots == 1..MaxConcurrent

ConcurrentConfigs ==
  { Obj([apiKey |-> Str(sKey), accountId |-> Str(sAccount)]),
    Obj([apiKey |-> Str(sKey), accountId |-> Str(sOtherAccount),
         baseUrl |-> Str(sCustomBase \o <<"/","/">>), testMode |-> Bool(TRUE)]) }

InitConcurrent ==
  /\ config \in ConcurrentConfigs
  /\ client = constructor(config).this
  /\ call = IdleCall
  /\ payload = Undef
  /\ inflight = [i \in Slots |-> IdleCall]

\* the facade calls the caller may issue
ConcurrentCalls ==
  { getCatalog(client),
    getOrderStatus(client, Str(sOrderNumber)),
    cancelOrder(client, Str(sBlank)),
    createOrder(client, orderPayload) }

ConcurrentResponses ==
  { Response(200, Obj([acOrderNumber |-> Txt("ATEST-0000001")])),
    Response(200, Unparseable),
    Response(409, Obj([error |-> Txt("Conflict"), message |-> Txt("Duplicate order"),
                       existingOrderNumber |-> Txt("ATEST-0000001")])),
    Response(500, Null) }

Issue(i) ==
  /\ inflight[i].pc = "idle"
  /\ \E c \in ConcurrentCalls : inflight' = [inflight EXCEPT ![i] = c]
  /\ UNCHANGED <<config, client, call, payload>>

FetchRejectsFor(i) ==
  /\ inflight[i].pc = "fetch"
  /\ inflight' = [inflight EXCEPT ![i] = requestFetchRejected(@, Error("ECONNREFUSED"))]
  /\ UNCHANGED <<config, client, call, payload>>

FetchResolvesFor(i) ==
  /\ inflight[i].pc = "fetch"
  /\ \E response \in ConcurrentResponses :
       inflight' = [inflight EXCEPT ![i] = requestFetchResolved(@, response)]
  /\ UNCHANGED <<config, client, call, payload>>

\* a variant in which the calls share one data variable: a call resumes with
\* the body of the response that arrived last, whichever call it was for
JsonSettlesFor_sharedData(i) ==
  /\ inflight[i].pc = "json"
  /\ LET others == { j \in Slots : j # i /\ inflight[j].pc = "json" }
         data == IF others = {} THEN inflight[i].response.body
                 ELSE inflight[CHOOSE j \in others : TRUE].response.body
     IN inflight' = [inflight EXCEPT ![i] =
                       IF data = Unparseable
                       THEN requestJsonRejected(@)
                       ELSE requestJsonResolved(@, data)]
  /\ UNCHANGED <<config, client, call, payload>>

\* response.json() of the i-th call settles
JsonSettlesFor(i) ==
  /\ inflight[i].pc = "json"
  /\ inflight' = [inflight EXCEPT ![i] =
                    IF @.response.body = Unparseable
                    THEN requestJsonRejected(@)
                    ELSE requestJsonResolved(@, @.response.body)]
  /\ UNCHANGED <<config, client, call, payload>>

\* the caller takes the outcome of the i-th call
SettleFor(i) ==
  /\ inflight[i].pc = "done"
  /\ inflight' = [inflight EXCEPT ![i] = IdleCall]
  /\ UNCHANGED <<config, client, call, payload>>

NextConcurrent ==
  \E i \in Slots :
     \/ Issue(i)
     \/ FetchRejectsFor(i)
     \/ FetchResolvesFor(i)
     \/ JsonSettlesFor(i)
     \/ SettleFor(i)

SpecConcurrent == InitConcurrent /\ [][NextConcurrent]_vars

-----------------------------------------------------------------------------
(* The caller's own object.  JavaScript passes objects by reference: the   *)
(* validators and the facade receive the caller's object itself, and the   *)
(* caller may change it whenever control is back with it.  payload is that *)
(* object; call.arg is what the operation was given when it was called.    *)

CallerObjects ==
  { orderPayload,
    With(orderPayload, "accountId", Str(sOtherAccount)),
    With(orderPayload, "testOrder", Bool(FALSE)),
    Without(orderPayload, "orderDatetime"),
    shippingCustomer,
    With(shippingCustomer, "state", Str(<<"o","r">>)),
    With(shippingCustomer, "city", Str(<<" ">>)),
    Arr(<<itemPlain, itemCustom>>),
    Arr(<<WithFiles(itemPlain)>>),
    Str(sOrderNumber), Str(sBlank), Null }

InitCaller ==
  /\ config \in ConcurrentConfigs
  /\ client = constructor(config).this
  /\ call = IdleCall
  /\ payload \in CallerObjects
  /\ inflight = <<>>

ValidatorNames ==
  { "validateOrderItems", "validateCustomer", "validateCreateOrderData",
    "validateOrderNumber" }

\* the caller may run a validator first, or again after a validator
MayValidate ==
  \/ call.pc = "idle"
  \/ call.pc = "done" /\ call.op \in ValidatorNames

RunValidateOrderItems ==
  /\ MayValidate
  /\ \E requireFiles \in BOOLEAN :
       call' = Validated("validateOrderItems",
                         [items |-> payload, requireFiles |-> requireFiles],
                         validateOrderItems(payload, requireFiles))
  /\ UNCHANGED <<config, client, payload, inflight>>

\* a variant that writes the state back upper-cased once the customer passed
RunValidateCustomer_normalises ==
  /\ MayValidate
  /\ \E label \in CustomerLabels :
       /\ call' = Validated("validateCustomer",
                            [customer |-> payload, label |-> label],
                            validateCustomer(payload, label))
       /\ payload' = IF validateCustomer(payload, label) = Pass
                     THEN With(payload, "state",
                               Str(toUpperCase(Get(payload, "state").chars)))
                     ELSE payload
  /\ UNCHANGED <<config, client, inflight>>

RunValidateCustomer ==
  /\ MayValidate
  /\ \E label \in CustomerLabels :
       call' = Validated("validateCustomer",
                         [customer |-> payload, label |-> label],
                         validateCustomer(payload, label))
  /\ UNCHANGED <<config, client, payload, inflight>>

RunValidateCreateOrderData ==
  /\ MayValidate
  /\ call' = Validated("validateCreateOrderData", payload,
                       validateCreateOrderData(payload))
  /\ UNCHANGED <<config, client, payload, inflight>>

RunValidateOrderNumber ==
  /\ MayValidate
  /\ call' = Validated("validateOrderNumber", payload, validateOrderNumber(payload))
  /\ UNCHANGED <<config, client, payload, inflight>>

\* a variant that assigns the injected fields to the caller's object
IssueCreateOrder_writesInto ==
  /\ Ready
  /\ call' = createOrder(client, payload)
  /\ payload' = IF validateCreateOrderData(payload) = Pass
                THEN createOrderBody(client, payload)
                ELSE payload
  /\ UNCHANGED <<config, client, inflight>>

\* client.createOrder(payload), up to its first await
IssueCreateOrder ==
  /\ Ready
  /\ call' = createOrder(client, payload)
  /\ UNCHANGED <<config, client, payload, inflight>>

\* client.checkPricing(payload), up to its first await
IssueCheckPricing ==
  /\ Ready
  /\ call' = checkPricing(client, payload)
  /\ UNCHANGED <<config, client, payload, inflight>>

\* the caller changes its object, or puts another in its place
CallerMutates ==
  /\ payload' \in CallerObjects \ {payload}
  /\ UNCHANGED <<config, client, call, inflight>>

NextCaller ==
  \/ RunValidateOrderItems
  \/ RunValidateCustomer
  \/ RunValidateCreateOrderData
  \/ RunValidateOrderNumber
  \/ IssueCreateOrder
  \/ IssueCheckPricing
  \/ CallerMutates
  \/ FetchRejects
  \/ FetchResolves
  \/ JsonRejects
  \/ JsonResolves
  \/ Settle

SpecCaller == InitCaller /\ [][NextCaller]_vars

-----------------------------------------------------------------------------
(* Properties *)

\* the message of the validator of the call's facade method on its argument
ValidationOf(c) ==
  CASE c.op = "checkPricing" -> validateOrderItems(c.arg, FALSE)
    [] c.op = "createOrder" -> validateCreateOrderData(c.arg)
    [] c.op \in {"getOrderStatus", "cancelOrder"} -> validateOrderNumber(c.arg)
    [] OTHER -> Pass

Invoked == call.op # "none"
Done == call.pc = "done"
ReachedNetwork == call.sent # <<>>
Threw == call.outcome.kind = "throw"
ThrewPrintApiError == Threw /\ IsPrintApiError(call.outcome.error)

\* the values the language treats as false
Falsy == { Undef, Null, Bool(FALSE), Num(0), NaN, Txt(""), Str(<<>>) }

\* C1: in every createOrder request handed to fetch, the body's accountId is
\* the accountId the constructor was given, whatever accountId the caller's
\* orderData carries.
C1_AccountIdOverrides ==
  (call.op = "createOrder" /\ ReachedNetwork) =>
     \A i \in 1..Len(call.sent) :
        /\ "accountId" \in DOMAIN call.sent[i].body.f
        /\ call.sent[i].body.f["accountId"] = Get(config, "accountId")

C1_Witness ==
  /\ call.op = "createOrder"
  /\ ReachedNetwork
  /\ Get(call.arg, "accountId") = Str(sOtherAccount)
  /\ Get(config, "accountId") = Str(sAccount)

\* C2: in every createOrder request handed to fetch, testOrder is true when
\* the client's testMode is enabled, whatever the caller supplied; when
\* testMode is false or left to its default it is the caller's value, and the
\* field is absent when the caller supplied none.
C2_TestOrderField ==
  (call.op = "createOrder" /\ ReachedNetwork) =>
     LET body == call.sent[1].body
         supplied == Get(call.arg, "testOrder")
     IN IF Get(config, "testMode") = Bool(TRUE)
        THEN Get(body, "testOrder") = Bool(TRUE)
        ELSE IF supplied = Undef
             THEN "testOrder" \notin DOMAIN body.f
             ELSE Get(body, "testOrder") = supplied

C2_Witness ==
  /\ call.op = "createOrder"
  /\ ReachedNetwork
  /\ Get(config, "testMode") = Bool(TRUE)
  /\ Get(call.arg, "testOrder") = Bool(FALSE)
  /\ Get(call.sent[1].body, "testOrder") = Bool(TRUE)

\* C3: a facade call whose argument fails its validator has rejected with a
\* plain Error (not a PrintApiError) carrying the validator's message, and
\* fetch has not been invoked for it.
C3_ValidationPrecedesNetwork ==
  (Invoked /\ ValidationOf(call) # Pass) =>
     /\ call.sent = <<>>
     /\ Done
     /\ Threw
     /\ call.outcome.error.name = "Error"
     /\ ~IsPrintApiError(call.outcome.error)
     /\ call.outcome.error.message = Txt(ValidationOf(call))

C3_Witness ==
  /\ Done
  /\ call.op = "createOrder"
  /\ ValidationOf(call) = "orderItems[0].files must be a non-empty array of HTTPS URLs"
  /\ Threw
  /\ call.sent = <<>>

\* C4: once fetch has been invoked, every failing outcome is a PrintApiError;
\* for a response with a non-2xx status it carries that status, whatever JSON
\* value the body parses to.
C4_RemoteFailuresArePrintApiErrors ==
  (Done /\ ReachedNetwork /\ Threw) =>
     /\ IsPrintApiError(call.outcome.error)
     /\ (call.response # NoResponse =>
           call.outcome.error.status = call.response.status)

C6_NetworkError ==
  (Done /\ call.failure # NoFailure) =>
     /\ ThrewPrintApiError
     /\ call.outcome.error.status = 0
     /\ call.outcome.error.errorType = Txt("NetworkError")
     /\ call.outcome.error.message
          = Txt("Request failed: " \o call.failure.message.text)

C6_Witness ==
  /\ Done
  /\ call.op = "cancelOrder"
  /\ call.failure = Error("ECONNREFUSED")
  /\ call.outcome.error.message = Txt("Request failed: ECONNREFUSED")

\* C7: when the body of a received response cannot be parsed, the call
\* rejects with a PrintApiError of errorType "ParseError" carrying the
\* received status, for success and non-success statuses alike.
C7_ParseError ==
  (Done /\ call.response.body = Unparseable) =>
     /\ ThrewPrintApiError
     /\ call.outcome.error.errorType = Txt("ParseError")
     /\ call.outcome.error.status = call.response.status
     /\ call.outcome.error.message
          = Txt("Failed to parse response (HTTP "
                \o ToString(call.response.status) \o ")")

C7_Witness ==
  /\ Done
  /\ call.response.body = Unparseable
  /\ call.response.status = 200
  /\ call.outcome.error.errorType = Txt("ParseError")

ObjectErrorResponse ==
  Done /\ call.response # NoResponse /\ ~call.response.ok
       /\ call.response.body.t = "object"

\* C8 as stated: errorType and message are the body's error and message
\* fields whenever the body has them, whatever their value.
C8_FieldsWheneverPresent ==
  ObjectErrorResponse =>
     LET body == call.response.body
         err == call.outcome.error
     IN /\ ThrewPrintApiError
        /\ err.status = call.response.status
        /\ err.errorType = (IF "error" \in DOMAIN body.f
                            THEN body.f["error"]
                            ELSE Txt("HTTP " \o ToString(call.response.status)))
        /\ err.message = (IF "message" \in DOMAIN body.f
                          THEN body.f["message"]
                          ELSE Txt("Unknown error"))

\* C8 (amended): for a parsed non-2xx response with an object body, the
\* PrintApiError has the response's status; errorType is the body's error
\* field when that field is truthy and "HTTP <status>" when it is absent or
\* falsy (null, false, 0, ""); message is the string form of the body's
\* message field when that field is truthy and "Unknown error" otherwise.
C8_FieldsWhenTruthy ==
  ObjectErrorResponse =>
     LET body == call.response.body
         err == call.outcome.error
     IN /\ ThrewPrintApiError
        /\ err.status = call.response.status
        /\ err.errorType = (IF Get(body, "error") \notin Falsy
                            THEN body.f["error"]
                            ELSE Txt("HTTP " \o ToString(call.response.status)))
        /\ err.message = (IF Get(body, "message") \notin Falsy
                          THEN ToStringJS(body.f["message"])
                          ELSE Txt("Unknown error"))

C8_Witness ==
  /\ ObjectErrorResponse
  /\ call.response.status = 500
  /\ Get(call.response.body, "error") = Txt("")
  /\ Get(call.response.body, "message") = Num(42)
  /\ call.outcome.error.errorType = Txt("HTTP 500")
  /\ call.outcome.error.message = Txt("42")

\* C9: for a parsed non-2xx response with an object body, the details of the
\* PrintApiError are exactly the body's fields other than error and message,
\* each with its value unchanged.
C9_DetailsAreTheOtherFields ==
  ObjectErrorResponse =>
     LET body == call.response.body
         details == call.outcome.error.details
     IN /\ ThrewPrintApiError
        /\ details.t = "object"
        /\ DOMAIN details.f = (DOMAIN body.f) \ {"error", "message"}
        /\ \A k \in DOMAIN details.f : details.f[k] = body.f[k]

C9_Witness ==
  /\ ObjectErrorResponse
  /\ call.response.status = 409
  /\ Get(call.response.body, "error") = Txt("Conflict")
  /\ Get(call.outcome.error.details, "existingOrderNumber") = Txt("ATEST-0000001")

\* C10: a call returns a value only for a 2xx response with a parseable body,
\* and the value is that body; every finished call ended in exactly one of a
\* returned payload, a local validation Error, or a PrintApiError.
C10_ThreeOutcomes ==
  Done =>
     /\ call.outcome.kind \in {"return", "throw"}
     /\ call.outcome.kind = "return" =>
          /\ call.response # NoResponse
          /\ call.response.ok
          /\ call.response.body # Unparseable
          /\ call.outcome.value = call.response.body
     /\ call.outcome.kind = "throw" =>
          \/ IsPrintApiError(call.outcome.error)
          \/ /\ call.sent = <<>>
             /\ call.outcome.error = Error(ValidationOf(call))
             /\ ValidationOf(call) # Pass


\* a string that is not blank: non-empty once its white space is trimmed
NonBlankString(v) ==
  /\ IsString(v)
  /\ \E i \in 1..Len(v.chars) : v.chars[i] \notin {" ", "\t", "\n"}

Constructed == Done /\ call.op = "constructor"

\* C11: construction fails with "apiKey is required" for every config whose
\* apiKey is missing, not a string or blank, otherwise with "accountId is
\* required" when accountId is; it succeeds exactly when both are non-blank
\* strings; this for every config shape, no argument at all included.
C11_ConstructorContract ==
  Constructed =>
     LET apiKey == Get(call.arg, "apiKey")
         accountId == Get(call.arg, "accountId")
     IN IF ~NonBlankString(apiKey)
        THEN call.outcome = Thrown(Error("apiKey is required"))
        ELSE IF ~NonBlankString(accountId)
        THEN call.outcome = Thrown(Error("accountId is required"))
        ELSE call.outcome.kind = "return"


\* the order items a facade call was given
ItemsOf(c) == IF c.op = "checkPricing" THEN c.arg ELSE Get(c.arg, "orderItems")

\* quantity is not an integer in [1,1000]
BadQuantity(item) ==
  LET quantity == Get(item, "quantity")
  IN ~(IsNumber(quantity) /\ ~quantity.nan /\ ~quantity.frac
       /\ quantity.n >= 1 /\ quantity.n <= 1000)

QuantityMessage(i) ==
  "orderItems[" \o ToString(i - 1) \o "].quantity must be an integer between 1 and 1000"

\* a finished checkPricing or createOrder whose item list holds a bad quantity
HasBadQuantity ==
  /\ Done
  /\ call.op \in {"checkPricing", "createOrder"}
  /\ IsArray(ItemsOf(call))
  /\ \E i \in 1..Len(ItemsOf(call).a) : BadQuantity(ItemsOf(call).a[i])

\* C12 as stated: every checkPricing or createOrder whose item list holds an
\* item with a quantity that is not an integer in [1,1000] rejects, before
\* any network call, with the quantity message naming such an item's index.
C12_QuantityAlwaysNamed ==
  HasBadQuantity =>
     /\ ~ReachedNetwork
     /\ \E i \in 1..Len(ItemsOf(call).a) :
          /\ BadQuantity(ItemsOf(call).a[i])
          /\ call.outcome = Thrown(Error(QuantityMessage(i)))

\* the bad quantity of item i is the first violation the validator meets:
\* what precedes the item list is in order, every earlier item passes every
\* check, and item i is an object with a non-blank sku and a known productType
QuantityIsFirstViolation(i) ==
  LET items == ItemsOf(call).a
  IN /\ BadQuantity(items[i])
     /\ items[i].t = "object"
     /\ NonBlankString(Get(items[i], "sku"))
     /\ Get(items[i], "productType") \in
          { Str(Newsletter), Str(Calendar), Str(Flyer), Str(LFP) }
     /\ \A j \in 1..(i - 1) :
          validateOrderItem(items[j], j, call.op = "createOrder") = Pass
     /\ call.op = "createOrder" =>
          /\ NonBlankString(Get(call.arg, "orderDatetime"))
          /\ NonBlankString(Get(call.arg, "sourceReferenceOrderNumber"))

\* C12, amended: such a call always rejects locally, before any network
\* call; its message is the quantity message naming index i whenever the bad
\* quantity of item i is the first violation in validation order.
C12_QuantityNamedWhenFirst ==
  HasBadQuantity =>
     /\ ~ReachedNetwork
     /\ Threw
     /\ call.outcome.error.name = "Error"
     /\ \A i \in 1..Len(ItemsOf(call).a) :
          QuantityIsFirstViolation(i) =>
             call.outcome = Thrown(Error(QuantityMessage(i)))

C12_Witness ==
  /\ HasBadQuantity
  /\ call.op = "createOrder"
  /\ Len(ItemsOf(call).a) = 2
  /\ QuantityIsFirstViolation(2)
  /\ call.outcome = Thrown(Error(QuantityMessage(2)))


\* a number strictly greater than 0
PositiveNumber(v) ==
  IsNumber(v) /\ ~v.nan /\ (v.n > 0 \/ (v.n = 0 /\ v.frac))

\* validateOrderItems has run on a one-item list whose item is in order up to
\* its quantity, files not required: the dimension check decides the outcome
DimensionCheckDecides ==
  /\ Done
  /\ call.op = "validateOrderItems"
  /\ ~call.arg.requireFiles
  /\ IsArray(call.arg.items)
  /\ Len(call.arg.items.a) = 1
  /\ call.arg.items.a[1].t = "object"
  /\ NonBlankString(Get(call.arg.items.a[1], "sku"))
  /\ Get(call.arg.items.a[1], "productType") \in
       { Str(Newsletter), Str(Calendar), Str(Flyer), Str(LFP) }
  /\ ~BadQuantity(call.arg.items.a[1])

\* C13: an item with sku "LFP_CS" passes the dimension check exactly when
\* longEdge and shortEdge are both numbers strictly greater than 0, longEdge
\* being checked first, whatever its productType; an item with another sku is
\* never rejected for its dimensions, even with productType "LFP".
C13_DimensionsBySku ==
  DimensionCheckDecides =>
     LET item == call.arg.items.a[1]
         longEdge == Get(item, "longEdge")
         shortEdge == Get(item, "shortEdge")
     IN IF Get(item, "sku") # Str(LFP_CS)
          THEN call.outcome = Returned(Undef)
        ELSE IF ~PositiveNumber(longEdge)
          THEN call.outcome = Thrown(Error(
                 "orderItems[0].longEdge is required for LFP_CS and must be a positive number"))
        ELSE IF ~PositiveNumber(shortEdge)
          THEN call.outcome = Thrown(Error(
                 "orderItems[0].shortEdge is required for LFP_CS and must be a positive number"))
        ELSE call.outcome = Returned(Undef)


\* the codes of the 48 contiguous states, by region, and the federal district
Contiguous48 ==
  { <<"M","E">>, <<"N","H">>, <<"V","T">>, <<"M","A">>, <<"R","I">>, <<"C","T">>,
    <<"N","Y">>, <<"N","J">>, <<"P","A">>, <<"D","E">>, <<"M","D">>, <<"V","A">>,
    <<"W","V">>, <<"N","C">>, <<"S","C">>, <<"G","A">>, <<"F","L">>, <<"A","L">>,
    <<"M","S">>, <<"T","N">>, <<"K","Y">>, <<"O","H">>, <<"I","N">>, <<"M","I">>,
    <<"I","L">>, <<"W","I">>, <<"M","N">>, <<"I","A">>, <<"M","O">>, <<"A","R">>,
    <<"L","A">>, <<"T","X">>, <<"O","K">>, <<"K","S">>, <<"N","E">>, <<"S","D">>,
    <<"N","D">>, <<"M","T">>, <<"W","Y">>, <<"C","O">>, <<"N","M">>, <<"A","Z">>,
    <<"U","T">>, <<"I","D">>, <<"N","V">>, <<"W","A">>, <<"O","R">>, <<"C","A">> }
AllowedStates == Contiguous48 \cup { <<"D","C">> }

\* validateCustomer has run, under either label, on a customer that is in
\* order but for its state
StateDecides ==
  /\ Done
  /\ call.op = "validateCustomer"
  /\ Without(call.arg.customer, "state") = Without(shippingCustomer, "state")

\* s and t are the same letters, whatever their case
SameLetters(s, t) ==
  /\ Len(s) = Len(t)
  /\ \A i \in 1..Len(s) :
       \E k \in 1..26 : s[i] \in {Upper[k], Lower[k]} /\ t[i] \in {Upper[k], Lower[k]}

\* C14: a customer's state passes exactly when it is a string that is, in
\* any letter case, one of the 49 codes (the 48 contiguous states and "DC");
\* "AK" and "HI" are rejected in every case; shipping and billing alike.
C14_StateAllowList ==
  /\ Cardinality(Contiguous48) = 48
  /\ Cardinality(AllowedStates) = 49
  /\ StateDecides =>
       LET state == Get(call.arg.customer, "state")
       IN IF IsString(state) /\ \E code \in AllowedStates : SameLetters(state.chars, code)
          THEN call.outcome = Returned(Undef)
          ELSE call.outcome = Thrown(Error(
                 call.arg.label \o ".state must be a 2-letter US state code (lower 48 + DC)"))

C14_Witness ==
  /\ StateDecides
  /\ call.arg.label = "billingCustomer"
  /\ Get(call.arg.customer, "state") = Str(<<"d","C">>)
  /\ call.outcome = Returned(Undef)


\* what a message of validateCustomer says after the role label, for each
\* base check
BaseSuffixes ==
  { " is required",
    ".firstName must be a non-empty string", ".lastName must be a non-empty string",
    ".address1 must be a non-empty string", ".city must be a non-empty string",
    ".zip must be a non-empty string", ".phone must be a non-empty string",
    ".phone must be a string with more than 9 characters",
    ".email must be a valid email address",
    ".state must be a 2-letter US state code (lower 48 + DC)" }

CustomerValidated == Done /\ call.op = "validateCustomer"

\* the finished validateCustomer failed one of the base checks
FailedBaseCheck ==
  \E suffix \in BaseSuffixes :
     call.outcome = Thrown(Error(call.arg.label \o suffix))

OtherLabel(label) ==
  IF label = "shippingCustomer" THEN "billingCustomer" ELSE "shippingCustomer"

\* the message differs from the one for the other role by the label alone
SameMessageForOtherRole ==
  \A suffix \in BaseSuffixes :
     call.outcome = Thrown(Error(call.arg.label \o suffix)) =>
        validateCustomer(call.arg.customer, OtherLabel(call.arg.label))
          = OtherLabel(call.arg.label) \o suffix

ContainsChar(v, c) == \E i \in 1..Len(v.chars) : v.chars[i] = c

\* email and state as the base contract wants them
EmailAndStateInOrder(customer) ==
  /\ IsString(Get(customer, "email"))
  /\ ContainsChar(Get(customer, "email"), "@")
  /\ ContainsChar(Get(customer, "email"), ".")
  /\ IsString(Get(customer, "state"))
  /\ \E code \in AllowedStates : SameLetters(Get(customer, "state").chars, code)

BaseTextFields == {"firstName", "lastName", "address1", "city", "zip", "phone"}

\* the base contract with "non-empty string" read as written
BaseContractAsStated(customer) ==
  /\ \A k \in BaseTextFields :
       IsString(Get(customer, k)) /\ Len(Get(customer, k).chars) > 0
  /\ Len(Get(customer, "phone").chars) > 9
  /\ EmailAndStateInOrder(customer)

\* the base contract with the text fields non-blank
BaseContractTrimmed(customer) ==
  /\ \A k \in BaseTextFields : NonBlankString(Get(customer, k))
  /\ Len(Get(customer, "phone").chars) > 9
  /\ EmailAndStateInOrder(customer)

\* C15 as stated: a customer of either role passes the base checks exactly
\* when its six text fields are non-empty strings, phone has more than 9
\* characters, email contains "@" and "." and state is allowed; a base
\* failure has the same message for both roles but for the label.
C15_BaseContractNonEmpty ==
  CustomerValidated =>
     /\ ~FailedBaseCheck <=> BaseContractAsStated(call.arg.customer)
     /\ SameMessageForOtherRole

\* C15, amended: the same with each text field required to be a string that
\* is non-empty after trimming white space.
C15_BaseContractNonBlank ==
  CustomerValidated =>
     /\ ~FailedBaseCheck <=> BaseContractTrimmed(call.arg.customer)
     /\ Threw => call.outcome.error.name = "Error"
     /\ SameMessageForOtherRole

C15_Witness ==
  /\ CustomerValidated
  /\ call.arg.label = "billingCustomer"
  /\ Get(call.arg.customer, "city") = Str(<<" ">>)
  /\ BaseContractAsStated(call.arg.customer)
  /\ call.outcome = Thrown(Error("billingCustomer.city must be a non-empty string"))


\* a string containing "@" and "."
LooksLikeEmail(v) == IsString(v) /\ ContainsChar(v, "@") /\ ContainsChar(v, ".")

\* C16: a shipping customer that passes the base checks is accepted exactly
\* when shipmentTrackingEmail is a sequence of 1 to 3 entries that each
\* contain "@" and "."; any other shape or length is rejected with the
\* "array of 1-3 email addresses" message, an invalid entry with a message
\* naming the smallest invalid index; a billing customer needs no
\* shipmentTrackingEmail.
C16_TrackingEmails ==
  (CustomerValidated /\ BaseContractTrimmed(call.arg.customer)) =>
     LET tracking == Get(call.arg.customer, "shipmentTrackingEmail")
         invalid == IF IsArray(tracking)
                    THEN { i \in 1..Len(tracking.a) : ~LooksLikeEmail(tracking.a[i]) }
                    ELSE {}
         smallest == CHOOSE i \in invalid : \A j \in invalid : i <= j
     IN IF call.arg.label = "billingCustomer"
          THEN Get(call.arg.customer, "billingInvoiceEmails") = Undef
                 => call.outcome = Returned(Undef)
        ELSE IF ~IsArray(tracking) \/ Len(tracking.a) \notin 1..3
          THEN call.outcome = Thrown(Error(
                 "shippingCustomer.shipmentTrackingEmail must be an array of 1-3 email addresses"))
        ELSE IF invalid # {}
          THEN call.outcome = Thrown(Error(
                 "shippingCustomer.shipmentTrackingEmail[" \o ToString(smallest - 1)
                   \o "] must be a valid email address"))
        ELSE call.outcome = Returned(Undef)

C16_Witness ==
  /\ CustomerValidated
  /\ call.arg.label = "shippingCustomer"
  /\ Get(call.arg.customer, "shipmentTrackingEmail")
       = Arr(<<Str(sEmail), Num(5), Str(sTAB)>>)
  /\ call.outcome = Thrown(Error(
       "shippingCustomer.shipmentTrackingEmail[1] must be a valid email address"))


\* billingInvoiceEmails, when the customer has them, are a sequence of valid
\* emails (null stands for none, as undefined does)
InvoiceEmailsInOrder(customer) ==
  LET invoice == Get(customer, "billingInvoiceEmails")
  IN \/ invoice \in {Undef, Null}
     \/ /\ IsArray(invoice)
        /\ \A i \in 1..Len(invoice.a) : LooksLikeEmail(invoice.a[i])

BillingContract(customer) ==
  /\ customer.t = "object"
  /\ BaseContractTrimmed(customer)
  /\ InvoiceEmailsInOrder(customer)

\* validateCreateOrderData has run on a payload that is in order up to its
\* shipping customer
BillingDecides ==
  /\ Done
  /\ call.op = "validateCreateOrderData"
  /\ call.arg.t = "object"
  /\ Without(Without(call.arg, "sourceSystemBilling"), "billingCustomer") = orderPayload

\* C17: a billing customer is required and validated exactly when
\* sourceSystemBilling is the boolean false: without one the order is
\* rejected with "billingCustomer is required when sourceSystemBilling is
\* false", with one the order is accepted exactly when that customer passes
\* the customer checks, billingInvoiceEmails included; with any other flag
\* or none the order is accepted, with or without a billingCustomer.
C17_BillingWhenFlagFalse ==
  BillingDecides =>
     LET billing == Get(call.arg, "billingCustomer")
     IN IF Get(call.arg, "sourceSystemBilling") # Bool(FALSE)
          THEN call.outcome = Returned(Undef)
        ELSE IF billing \in {Undef, Null}
          THEN call.outcome = Thrown(Error(
                 "billingCustomer is required when sourceSystemBilling is false"))
        ELSE /\ call.outcome = Returned(Undef) <=> BillingContract(billing)
             /\ call.outcome # Returned(Undef) =>
                  /\ Threw
                  /\ call.outcome.error.name = "Error"

C17_Witness ==
  /\ BillingDecides
  /\ Get(call.arg, "sourceSystemBilling") = Bool(FALSE)
  /\ Get(Get(call.arg, "billingCustomer"), "billingInvoiceEmails")
       = Arr(<<Str(sEmail), Str(sTAB)>>)
  /\ call.outcome = Thrown(Error(
       "billingCustomer.billingInvoiceEmails[1] must be a valid email address"))


\* a string starting with "https://"
HttpsString(v) ==
  /\ IsString(v)
  /\ Len(v.chars) >= 8
  /\ SubSeq(v.chars, 1, 8) = <<"h","t","t","p","s",":","/","/">>

\* a non-empty sequence of HTTPS URLs
FilesInOrder(item) ==
  LET files == Get(item, "files")
  IN /\ IsArray(files)
     /\ Len(files.a) > 0
     /\ \A j \in 1..Len(files.a) : HttpsString(files.a[j])

\* the item contract but for files
ItemBasics(item) ==
  /\ item.t = "object"
  /\ NonBlankString(Get(item, "sku"))
  /\ Get(item, "productType") \in
       { Str(Newsletter), Str(Calendar), Str(Flyer), Str(LFP) }
  /\ ~BadQuantity(item)
  /\ Get(item, "sku") = Str(LFP_CS) =>
       /\ PositiveNumber(Get(item, "longEdge"))
       /\ PositiveNumber(Get(item, "shortEdge"))

ItemContract(item) == ItemBasics(item) /\ FilesInOrder(item)

ShippingContract(customer) ==
  LET tracking == Get(customer, "shipmentTrackingEmail")
  IN /\ customer.t = "object"
     /\ BaseContractTrimmed(customer)
     /\ IsArray(tracking)
     /\ Len(tracking.a) \in 1..3
     /\ \A i \in 1..Len(tracking.a) : LooksLikeEmail(tracking.a[i])

\* the body of the POST /order request the call has handed to fetch
OrderSent == call.op = "createOrder" /\ ReachedNetwork
OrderBody == call.sent[1].body

\* C18: in every POST /order body that leaves the client every order item
\* satisfies the item contract, the shippingCustomer the shipping contract,
\* and a billingCustomer, whenever the body has one, the billing contract,
\* whatever sourceSystemBilling is.
C18_SentOrderIsValidated ==
  OrderSent =>
     /\ IsArray(Get(OrderBody, "orderItems"))
     /\ \A i \in 1..Len(Get(OrderBody, "orderItems").a) :
          ItemContract(Get(OrderBody, "orderItems").a[i])
     /\ ShippingContract(Get(OrderBody, "shippingCustomer"))
     /\ Get(OrderBody, "billingCustomer") # Undef =>
          BillingContract(Get(OrderBody, "billingCustomer"))

\* createOrder has finished on a payload that is in order up to item i,
\* which is in order but for its files
FilesDecide(i) ==
  /\ Done
  /\ call.op = "createOrder"
  /\ call.arg.t = "object"
  /\ NonBlankString(Get(call.arg, "orderDatetime"))
  /\ NonBlankString(Get(call.arg, "sourceReferenceOrderNumber"))
  /\ IsArray(Get(call.arg, "orderItems"))
  /\ i \in 1..Len(Get(call.arg, "orderItems").a)
  /\ \A j \in 1..(i - 1) : ItemContract(Get(call.arg, "orderItems").a[j])
  /\ ItemBasics(Get(call.arg, "orderItems").a[i])

\* C19: every POST /order body has, for each item, a non-empty files
\* sequence of strings starting with "https://"; createOrder on an otherwise
\* valid item without such a sequence rejects with "orderItems[i].files must
\* be a non-empty array of HTTPS URLs" and no network call; checkPricing
\* takes an otherwise valid item list to the network whatever its files are.
C19_FilesForOrdersOnly ==
  /\ OrderSent =>
       \A i \in 1..Len(Get(OrderBody, "orderItems").a) :
          FilesInOrder(Get(OrderBody, "orderItems").a[i])
  /\ \A i \in 1..MaxItems :
       LET files == Get(Get(call.arg, "orderItems").a[i], "files")
       IN (FilesDecide(i) /\ (~IsArray(files) \/ files.a = <<>>)) =>
            /\ ~ReachedNetwork
            /\ call.outcome = Thrown(Error(
                 "orderItems[" \o ToString(i - 1)
                   \o "].files must be a non-empty array of HTTPS URLs"))
  /\ ( /\ call.op = "checkPricing"
       /\ IsArray(call.arg)
       /\ call.arg.a # <<>>
       /\ \A i \in 1..Len(call.arg.a) : ItemBasics(call.arg.a[i]) )
     => /\ ReachedNetwork
        /\ Get(call.sent[1].body, "orderItems") = call.arg

C19_Witness ==
  /\ FilesDecide(2)
  /\ Get(Get(call.arg, "orderItems").a[2], "files") = Undef
  /\ call.outcome = Thrown(Error(
       "orderItems[1].files must be a non-empty array of HTTPS URLs"))

C19_WitnessPricing ==
  /\ call.op = "checkPricing"
  /\ ReachedNetwork
  /\ Get(call.arg.a[1], "files") = Arr(<<Str(sHttpUrl)>>)

\* C20: getOrderStatus and cancelOrder treat their argument alike: a string
\* that is non-empty after trimming goes to the network unchanged, as the
\* orderNumber query parameter or body field; anything else is rejected with
\* "orderNumber must be a non-empty string" and no network call.
C20_OrderNumberAlike ==
  (call.op \in {"getOrderStatus", "cancelOrder"}) =>
     IF NonBlankString(call.arg)
     THEN /\ ReachedNetwork
          /\ call.op = "getOrderStatus" =>
               /\ call.sent[1].body = Undef
               /\ \E k \in 1..Len(call.sent[1].url.search) :
                    call.sent[1].url.search[k] = <<"orderNumber", call.arg>>
               /\ \A k \in 1..Len(call.sent[1].url.search) :
                    call.sent[1].url.search[k][1] = "orderNumber"
                      => call.sent[1].url.search[k][2] = call.arg
          /\ call.op = "cancelOrder" =>
               Get(call.sent[1].body, "orderNumber") = call.arg
     ELSE /\ ~ReachedNetwork
          /\ call.outcome = Thrown(Error("orderNumber must be a non-empty string"))

C20_Witness ==
  /\ call.op = "cancelOrder"
  /\ call.arg = Str(<<" ","A","1"," ">>)
  /\ ReachedNetwork
  /\ Get(call.sent[1].body, "orderNumber") = call.arg

C20_WitnessRejected ==
  /\ call.op = "getOrderStatus"
  /\ call.arg = Str(sBlank)
  /\ Done
  /\ call.outcome = Thrown(Error("orderNumber must be a non-empty string"))


\* the request a call has handed to fetch
Request == call.sent[1]

OpMethod(op) ==
  IF op \in {"getCatalog", "getOrderStatus"} THEN "GET" ELSE "POST"

\* the payload a POST operation serializes
PayloadOf(c) ==
  CASE c.op = "checkPricing" ->
         Obj([accountId |-> Get(config, "accountId"), orderItems |-> c.arg])
    [] c.op = "cancelOrder" ->
         Obj([accountId |-> Get(config, "accountId"), orderNumber |-> c.arg])
    [] c.op = "createOrder" -> createOrderBody(client, c.arg)

\* C21: every request carries X-API-Key, the apiKey given at construction;
\* it carries Content-Type: application/json exactly when it carries a body,
\* which is then the JSON serialization of the payload; getCatalog and
\* getOrderStatus are GETs with neither, checkPricing, createOrder and
\* cancelOrder are POSTs with both.
C21_Headers ==
  ReachedNetwork =>
     /\ Request.headers["X-API-Key"] = Get(config, "apiKey")
     /\ DOMAIN Request.headers \subseteq {"X-API-Key", "Content-Type"}
     /\ "Content-Type" \in DOMAIN Request.headers <=> Request.body # Undef
     /\ "Content-Type" \in DOMAIN Request.headers =>
          Request.headers["Content-Type"] = Txt("application/json")
     /\ Request.method = OpMethod(call.op)
     /\ IF OpMethod(call.op) = "GET"
        THEN Request.body = Undef
        ELSE Request.body = JSONstringify(PayloadOf(call))

C21_Witness ==
  /\ ReachedNetwork
  /\ call.op = "getOrderStatus"
  /\ Request.headers = ("X-API-Key" :> Str(<<" ">> \o sKey))
  /\ Request.body = Undef

C21_WitnessPost ==
  /\ ReachedNetwork
  /\ call.op = "cancelOrder"
  /\ "Content-Type" \in DOMAIN Request.headers
  /\ Request.method = "POST"

\* the base address the client was configured with
ConfiguredBase ==
  IF Get(config, "baseUrl") = Undef
  THEN <<"h","t","t","p","s",":","/","/","p","r","i","n","t","a","p","i",
         ".","n","e","t","/","a","p","i","/","v","1">>
  ELSE Get(config, "baseUrl").chars

\* s without its trailing slashes: the prefix of s that does not end in a
\* slash and is followed by slashes only
WithoutTrailingSlashes(s) ==
  CHOOSE b \in { SubSeq(s, 1, n) : n \in 0..Len(s) } :
     /\ b = <<>> \/ b[Len(b)] # "/"
     /\ \A k \in (Len(b) + 1)..Len(s) : s[k] = "/"

OpPath(op) ==
  CASE op = "getCatalog" -> <<"/","c","a","t","a","l","o","g">>
    [] op = "checkPricing" -> <<"/","p","r","i","c","i","n","g">>
    [] op = "createOrder" -> <<"/","o","r","d","e","r">>
    [] op = "getOrderStatus" -> <<"/","o","r","d","e","r","s","t","a","t","u","s">>
    [] op = "cancelOrder" -> <<"/","c","a","n","c","e","l","o","r","d","e","r">>

\* C22: the request address is the configured base address without its
\* trailing slashes, followed by the operation's path; the default base
\* address is https://printapi.net/api/v1.
C22_RequestAddress ==
  ReachedNetwork =>
     Request.url.href = WithoutTrailingSlashes(ConfiguredBase) \o OpPath(call.op)

C22_Witness ==
  /\ ReachedNetwork
  /\ call.op = "createOrder"
  /\ Get(config, "baseUrl") = Str(sCustomBase \o <<"/","/">>)
  /\ Request.url.href = sCustomBase \o <<"/","o","r","d","e","r">>

\* the values of the query parameters named key
QueryValues(key) ==
  { Request.url.search[k][2] :
      k \in { j \in 1..Len(Request.url.search) : Request.url.search[j][1] = key } }

QueryKeys == { Request.url.search[k][1] : k \in 1..Len(Request.url.search) }

\* the configured accountId is where each operation puts it, and nowhere in
\* a catalog request
AccountIdInjected ==
  CASE call.op = "checkPricing" ->
         /\ Request.url.search = <<>>
         /\ DOMAIN Request.body.f = {"accountId", "orderItems"}
         /\ Request.body.f["accountId"] = Get(config, "accountId")
         /\ Request.body.f["orderItems"] = JSONstringify(call.arg)
    [] call.op = "getOrderStatus" ->
         /\ Request.body = Undef
         /\ Len(Request.url.search) = 2
         /\ QueryValues("accountId") = { Get(config, "accountId") }
         /\ QueryValues("orderNumber") = { call.arg }
    [] call.op = "cancelOrder" ->
         /\ Request.url.search = <<>>
         /\ DOMAIN Request.body.f = {"accountId", "orderNumber"}
         /\ Request.body.f["accountId"] = Get(config, "accountId")
         /\ Request.body.f["orderNumber"] = call.arg
    [] call.op = "getCatalog" ->
         /\ Request.url.search = <<>>
         /\ Request.body = Undef
    [] call.op = "createOrder" ->
         /\ Request.url.search = <<>>
         /\ Get(Request.body, "accountId") = Get(config, "accountId")

NullWords ==
  { Str(<<"n","u","l","l">>), Txt("null"),
    Str(<<"u","n","d","e","f","i","n","e","d">>), Txt("undefined") }

\* C23 as stated: the accountId is injected as above, and no query parameter
\* ever has the literal value "null" or "undefined".
C23_NoNullWordInQuery ==
  ReachedNetwork =>
     /\ AccountIdInjected
     /\ \A key \in QueryKeys : QueryValues(key) \cap NullWords = {}

\* C23, amended: the accountId is injected as above; the only query
\* parameters are the accountId and orderNumber of getOrderStatus, each the
\* configured or given string itself, so that no null or undefined value is
\* ever serialized (an orderNumber that spells "null" is sent as given).
C23_AccountIdInjected ==
  ReachedNetwork =>
     /\ AccountIdInjected
     /\ QueryKeys \subseteq {"accountId", "orderNumber"}
     /\ QueryKeys # {} => call.op = "getOrderStatus"
     /\ \A key \in QueryKeys :
          /\ QueryValues(key) \subseteq { Get(config, "accountId"), call.arg }
          /\ \A v \in QueryValues(key) : NonBlankString(v)

C23_Witness ==
  /\ ReachedNetwork
  /\ call.op = "getOrderStatus"
  /\ call.arg = Str(<<"n","u","l","l">>)
  /\ QueryValues("orderNumber") = { Str(<<"n","u","l","l">>) }
  /\ QueryValues("accountId") = { Str(sOtherAccount) }


\* C24: the createOrder example payloads of the README and of the
\* documentation comment pass local validation: createOrder called with one
\* of them issues the POST /order request.
C24_ExamplesAreAccepted ==
  (call.op = "createOrder" /\ call.arg \in ExamplePayloads) =>
     /\ ReachedNetwork
     /\ Request.method = "POST"
     /\ Request.url.href = client.baseUrl \o <<"/","o","r","d","e","r">>


\* the values fixed at construction, read off the constructor's argument
AsConstructed ==
  [ apiKey |-> Get(config, "apiKey"),
    accountId |-> Get(config, "accountId"),
    baseUrl |-> WithoutTrailingSlashes(ConfiguredBase),
    testMode |-> IF Get(config, "testMode") = Undef
                 THEN Bool(FALSE) ELSE Get(config, "testMode") ]

\* C25: whatever calls were made and however they ended, the client's
\* apiKey, accountId, base address and testMode are the values fixed at
\* construction, and a request in flight was built from them.
C25_ConfigurationImmutable ==
  /\ client = AsConstructed
  /\ ReachedNetwork =>
       /\ Request.headers["X-API-Key"] = AsConstructed.apiKey
       /\ Request.url.href = AsConstructed.baseUrl \o OpPath(call.op)
       /\ call.op = "getOrderStatus" =>
            QueryValues("accountId") = { AsConstructed.accountId }
       /\ OpMethod(call.op) = "POST" =>
            Get(Request.body, "accountId") = AsConstructed.accountId
       /\ call.op = "createOrder" =>
            (Get(Request.body, "testOrder") = Bool(TRUE)
               <=> (AsConstructed.testMode = Bool(TRUE)
                      \/ Get(call.arg, "testOrder") = Bool(TRUE)))

\* a call carrying another accountId has failed remotely, and the client is
\* as constructed
C25_Witness ==
  /\ Done
  /\ call.op = "createOrder"
  /\ Get(call.arg, "accountId") = Str(sOtherAccount)
  /\ ThrewPrintApiError
  /\ call.outcome.error.status = 500
  /\ client.accountId = Str(sAccount)
  /\ client = AsConstructed


\* the call c as the facade method starts it, from its name and argument
AsIssued(c) ==
  CASE c.op = "getCatalog" -> getCatalog(client)
    [] c.op = "checkPricing" -> checkPricing(client, c.arg)
    [] c.op = "createOrder" -> createOrder(client, c.arg)
    [] c.op = "getOrderStatus" -> getOrderStatus(client, c.arg)
    [] c.op = "cancelOrder" -> cancelOrder(client, c.arg)

\* how the call c ends when it runs alone and its request is answered with
\* c's own failure or response
RunAlone(c) ==
  IF AsIssued(c).pc = "done" THEN AsIssued(c)
  ELSE IF c.failure # NoFailure THEN requestFetchRejected(AsIssued(c), c.failure)
  ELSE IF c.response.body = Unparseable
    THEN requestJsonRejected(requestFetchResolved(AsIssued(c), c.response))
  ELSE requestJsonResolved(requestFetchResolved(AsIssued(c), c.response),
                           c.response.body)

\* C26: calls in flight together are independent: in every interleaving
\* each call ends as it would have ended alone, given its own arguments and
\* the answer to its own request, and while it is in flight its request is
\* the one it issued.
C26_CallsAreIndependent ==
  \A i \in Slots :
     /\ inflight[i].pc = "done" => inflight[i] = RunAlone(inflight[i])
     /\ inflight[i].pc \in {"fetch", "json"} =>
          /\ inflight[i].sent = AsIssued(inflight[i]).sent
          /\ inflight[i].outcome = Pending

\* one call has ended with the error of its own 409 while another, answered
\* 200, is still waiting for its body
C26_Witness ==
  \E i \in Slots, j \in Slots :
     /\ i # j
     /\ inflight[i].pc = "done"
     /\ inflight[i].op = "createOrder"
     /\ inflight[i].outcome.kind = "throw"
     /\ IsPrintApiError(inflight[i].outcome.error)
     /\ inflight[i].outcome.error.status = 409
     /\ inflight[j].pc = "json"
     /\ inflight[j].op = "getOrderStatus"
     /\ inflight[j].response.status = 200


\* what a validator was given, as the caller's object
ValidatedInput(c) ==
  CASE c.op = "validateOrderItems" -> c.arg.items
    [] c.op = "validateCustomer" -> c.arg.customer
    [] OTHER -> c.arg

\* this step is a run of a validator
ValidatorRuns ==
  /\ call'.op \in ValidatorNames
  /\ call'.pc = "done"
  /\ call' # call

FacadeCallIssued ==
  /\ call.pc = "idle"
  /\ call'.op \in {"createOrder", "checkPricing"}

\* C30: what is sent is what was validated: the body handed to fetch is the
\* serialization of the payload as it was when the call was made, which
\* passed validation; nothing the caller does to its object afterwards
\* changes the request; and the call leaves the caller's object as it was,
\* without the injected accountId or testOrder.
C30_SentIsValidated ==
  /\ [](ReachedNetwork =>
          /\ ValidationOf(call) = Pass
          /\ Request.body = JSONstringify(PayloadOf(call)))
  /\ [][ /\ FacadeCallIssued => (payload' = payload /\ call'.arg = payload)
         /\ call.pc \in {"fetch", "json"} => call'.sent = call.sent ]_vars

\* the order is in flight, the caller's object has been changed since, and
\* the body is still the order as it was given
C30_Witness ==
  /\ call.op = "createOrder"
  /\ call.pc = "json"
  /\ payload # call.arg
  /\ payload = Without(orderPayload, "orderDatetime")
  /\ Get(call.arg, "accountId") = Str(sOtherAccount)
  /\ Request.body = JSONstringify(With(call.arg, "accountId", Get(config, "accountId")))


\* the first thing wrong with the item at position i, in the order object
\* shape, sku, productType, quantity, longEdge, shortEdge, files, file URLs;
\* "" when nothing is
FirstItemViolation(item, i) ==
  LET prefix == "orderItems[" \o ToString(i - 1) \o "]"
      files == Get(item, "files")
      badUrls == IF IsArray(files)
                 THEN { j \in 1..Len(files.a) : ~HttpsString(files.a[j]) }
                 ELSE {}
  IN
  IF item.t # "object" THEN prefix \o " must be an object"
  ELSE IF ~NonBlankString(Get(item, "sku"))
    THEN prefix \o ".sku must be a non-empty string"
  ELSE IF Get(item, "productType") \notin
            { Str(Newsletter), Str(Calendar), Str(Flyer), Str(LFP) }
    THEN prefix \o ".productType must be one of: Newsletter, Calendar, Flyer, LFP"
  ELSE IF BadQuantity(item)
    THEN prefix \o ".quantity must be an integer between 1 and 1000"
  ELSE IF Get(item, "sku") = Str(LFP_CS) /\ ~PositiveNumber(Get(item, "longEdge"))
    THEN prefix \o ".longEdge is required for LFP_CS and must be a positive number"
  ELSE IF Get(item, "sku") = Str(LFP_CS) /\ ~PositiveNumber(Get(item, "shortEdge"))
    THEN prefix \o ".shortEdge is required for LFP_CS and must be a positive number"
  ELSE IF ~IsArray(files) \/ files.a = <<>>
    THEN prefix \o ".files must be a non-empty array of HTTPS URLs"
  ELSE IF badUrls # {}
    THEN prefix \o ".files["
           \o ToString((CHOOSE j \in badUrls : \A k \in badUrls : j <= k) - 1)
           \o "] must be an HTTPS URL"
  ELSE ""

\* the first thing wrong with a customer, in the order firstName, lastName,
\* address1, city, zip, phone non-empty, phone length, email, state, then
\* the role's email list
FirstCustomerViolation(customer, label) ==
  LET TextViolation(k) == ~NonBlankString(Get(customer, k))
      emails == Get(customer, IF label = "shippingCustomer"
                              THEN "shipmentTrackingEmail" ELSE "billingInvoiceEmails")
      badEmails == IF IsArray(emails)
                   THEN { j \in 1..Len(emails.a) : ~LooksLikeEmail(emails.a[j]) }
                   ELSE {}
      field == IF label = "shippingCustomer"
               THEN ".shipmentTrackingEmail" ELSE ".billingInvoiceEmails"
  IN
  IF customer.t \notin {"object", "array"} THEN label \o " is required"
  ELSE IF TextViolation("firstName") THEN label \o ".firstName must be a non-empty string"
  ELSE IF TextViolation("lastName") THEN label \o ".lastName must be a non-empty string"
  ELSE IF TextViolation("address1") THEN label \o ".address1 must be a non-empty string"
  ELSE IF TextViolation("city") THEN label \o ".city must be a non-empty string"
  ELSE IF TextViolation("zip") THEN label \o ".zip must be a non-empty string"
  ELSE IF TextViolation("phone") THEN label \o ".phone must be a non-empty string"
  ELSE IF Len(Get(customer, "phone").chars) <= 9
    THEN label \o ".phone must be a string with more than 9 characters"
  ELSE IF ~LooksLikeEmail(Get(customer, "email"))
    THEN label \o ".email must be a valid email address"
  ELSE IF ~(IsString(Get(customer, "state"))
            /\ \E code \in AllowedStates : SameLetters(Get(customer, "state").chars, code))
    THEN label \o ".state must be a 2-letter US state code (lower 48 + DC)"
  ELSE IF label = "shippingCustomer" /\ (~IsArray(emails) \/ Len(emails.a) \notin 1..3)
    THEN label \o ".shipmentTrackingEmail must be an array of 1-3 email addresses"
  ELSE IF label = "billingCustomer" /\ emails \notin {Undef, Null} /\ ~IsArray(emails)
    THEN label \o ".billingInvoiceEmails must be an array of email addresses"
  ELSE IF (label = "shippingCustomer" \/ emails \notin {Undef, Null}) /\ badEmails # {}
    THEN label \o field \o "["
           \o ToString((CHOOSE j \in badEmails : \A k \in badEmails : j <= k) - 1)
           \o "] must be a valid email address"
  ELSE ""

\* the first thing wrong with a create-order payload, in the order orderData,
\* orderDatetime, sourceReferenceOrderNumber, the items by ascending index,
\* the shipping customer, the billing customer
FirstViolation(orderData) ==
  LET items == Get(orderData, "orderItems")
      badItems == IF IsArray(items)
                  THEN { i \in 1..Len(items.a) : FirstItemViolation(items.a[i], i) # "" }
                  ELSE {}
      billing == Get(orderData, "billingCustomer")
  IN
  IF orderData.t \notin {"object", "array"} THEN "orderData must be an object"
  ELSE IF ~NonBlankString(Get(orderData, "orderDatetime"))
    THEN "orderDatetime must be a non-empty string"
  ELSE IF ~NonBlankString(Get(orderData, "sourceReferenceOrderNumber"))
    THEN "sourceReferenceOrderNumber must be a non-empty string"
  ELSE IF ~IsArray(items) \/ items.a = <<>>
    THEN "orderItems must be a non-empty array"
  ELSE IF badItems # {}
    THEN LET i == CHOOSE i \in badItems : \A k \in badItems : i <= k
         IN FirstItemViolation(items.a[i], i)
  ELSE IF FirstCustomerViolation(Get(orderData, "shippingCustomer"), "shippingCustomer") # ""
    THEN FirstCustomerViolation(Get(orderData, "shippingCustomer"), "shippingCustomer")
  ELSE IF Get(orderData, "sourceSystemBilling") # Bool(FALSE) THEN ""
  ELSE IF ~Truthy(billing)
    THEN "billingCustomer is required when sourceSystemBilling is false"
  ELSE FirstCustomerViolation(billing, "billingCustomer")

\* C28: of the violations of a create-order payload the one reported is the
\* first in the fixed order above, so that an item error names the smallest
\* index of an invalid item; a payload with no violation passes.
C28_FirstViolationReported ==
  (Done /\ call.op = "validateCreateOrderData") =>
     call.outcome = IF FirstViolation(call.arg) = ""
                    THEN Returned(Undef)
                    ELSE Thrown(Error(FirstViolation(call.arg)))


\* C29: createOrder applies every item check of checkPricing: an orderItems
\* value that checkPricing rejects locally is rejected locally by
\* createOrder when put into an otherwise valid order, and the item list of
\* an order that createOrder sends is one that checkPricing sends.
C29_CreateOrderChecksMore ==
  /\ (call.op = "checkPricing" /\ Done /\ ~ReachedNetwork) =>
        LET order == createOrder(client, With(orderPayload, "orderItems", call.arg))
        IN /\ order.sent = <<>>
           /\ order.outcome.kind = "throw"
           /\ order.outcome.error.name = "Error"
  /\ (call.op = "createOrder" /\ ReachedNetwork) =>
        checkPricing(client, Get(call.arg, "orderItems")).sent # <<>>

C29_Witness ==
  /\ call.op = "checkPricing"
  /\ Done
  /\ IsArray(call.arg)
  /\ Len(call.arg.a) = 2
  /\ call.outcome = Thrown(Error(QuantityMessage(2)))
  /\ createOrder(client, With(orderPayload, "orderItems", call.arg)).outcome.kind
       = "throw"

C29_WitnessAccepted ==
  /\ call.op = "createOrder"
  /\ ReachedNetwork
  /\ Len(Get(call.arg, "orderItems").a) = 2
  /\ checkPricing(client, Get(call.arg, "orderItems")).pc = "fetch"

====
